---- MODULE Spec2Model ----
(***************************************************************************)
(* Model of opsops: the .sops.yaml configuration store                     *)
(* (src/util/sops_config.rs), the recipient scan of the doctor command     *)
(* (src/commands/doctor.rs), the per-file rule upsert of set_keys, alone   *)
(* and run twice at once (src/commands/set_key.rs), the project-root       *)
(* search (src/util/find_project_root.rs) and the decrypt command          *)
(* (src/commands/decrypt.rs).                                              *)
(*                                                                         *)
(* Strings are TLA+ strings.  An error message is a sequence of text       *)
(* fragments, so that `contains` is a search among the fragments.          *)
(* Option<T> is <<>> (None) or <<v>> (Some(v)).                            *)
(***************************************************************************)
EXTENDS Integers, Sequences, FiniteSets, TLC

VARIABLES
    fs,                 \* the file system: path -> file
    context,            \* GlobalContext {sops_file, opitem}
    root,               \* what find_project_root() returns in this run
    pc,                 \* position of the running command
    result,             \* Result<SopsConfig, String> of read_or_create_config
    config,             \* the SopsConfig a command works on
    derived_public_key, \* doctor: the candidate recipient
    i,                  \* doctor: index of the next rule to scan
    found,              \* doctor: found
    via,                \* doctor: which of the two success messages was printed
    rules_without_age,  \* doctor: rules_without_age
    file_name,          \* update_sops_config: file_name
    pubkey,             \* update_sops_config: pubkey
    encrypted_regex,    \* update_sops_config: encrypted_regex
    before,             \* the configuration update_sops_config read
    write_result,       \* Result<(), String> of the last write_config
    tree,               \* project-root search: directory -> names of its entries
    start_dir,          \* find_root_by_indicators_from_dir: start_dir
    current_dir,        \* find_root_by_indicators_from_dir: current_dir
    root_result,        \* find_root_by_indicators_from_dir: the returned Option
    path_str,           \* decrypt: path_str
    output_path,        \* decrypt: output_path
    env,                \* decrypt: what the command finds on the machine
    exit_code,          \* decrypt: the exit code of the process
    sops_args,          \* decrypt: the arguments sops was launched with
    inv,                \* two invocations of set_keys: each one's own state
    log,                \* two invocations: the file operations in their order
    text,               \* two invocations: the text of the shared document
    command,            \* the command that runs: encrypt, decrypt, edit, init, set_keys
    trace,              \* what the command did to the world outside, in order
    key_result,         \* Result<String, String> of get_age_key_from_1password
    upserts             \* the upserts applied so far, as <<file, recipient, pattern>>

rootVars == <<tree, start_dir, current_dir, root_result>>
decryptVars == <<path_str, output_path, env, exit_code, sops_args>>
raceVars == <<inv, log, text>>
toolVars == <<command, trace, key_result, upserts>>

vars == <<fs, context, root, pc, result, config, derived_public_key, i, found,
          via, rules_without_age, file_name, pubkey, encrypted_regex, before,
          write_result, rootVars, decryptVars, raceVars, toolVars>>

(***************************************************************************)
(* Bounds of the model                                                     *)
(***************************************************************************)
MaxDocRules == 1        \* rules in a persisted document (load)
MaxScanRules == 3       \* rules in a scanned configuration (doctor)
MaxUpsertRules == 2     \* rules in a configuration before an upsert
MaxPersistRules == 2    \* rules in a configuration that is persisted
MaxDepth == 3           \* depth of the start directory below the filesystem root
MaxPathLen == 5         \* characters in the path given to decrypt
MaxRaceRules == 1       \* rules in the document two invocations start from
MaxSeqRules == 2        \* rules in a configuration before a sequence of upserts
MaxUpserts == 2         \* upserts applied in a row

(***************************************************************************)
(* Values                                                                  *)
(***************************************************************************)
None == <<>>
Some(v) == <<v>>
IsSome(o) == o # None
Unwrap(o) == o[1]
UnwrapOrDefault(o) == IF IsSome(o) THEN Unwrap(o) ELSE ""

RECURSIVE SeqsUpTo(_, _)
SeqsUpTo(S, n) ==
    IF n = 0 THEN {<<>>}
    ELSE LET shorter == SeqsUpTo(S, n - 1)
         IN  shorter \cup {Append(s, x) : s \in {t \in shorter : Len(t) = n - 1}, x \in S}

\* serde's texts (the source writes the field name between backquotes)
MissingOpText == "missing field onepassworditem"
MissingRulesText == "missing field creation_rules"

Keys == {"age1A", "age1B", "AGE1A"}
Refs == {"op://V/I/F", "op://W/J/G"}
Files == {"app.yaml", "db.json"}
Patterns == {".*", "^(password|token)"}

(***************************************************************************)
(* sops_structs: SopsConfig, CreationRule, KeyGroup                        *)
(***************************************************************************)
KeyGroup(age) == [age |-> age]

CreationRule(path_regex, age, enc, key_groups) ==
    [path_regex |-> path_regex, age |-> age, encrypted_regex |-> enc,
     key_groups |-> key_groups]

SopsConfig(creation_rules, onepassworditem) ==
    [creation_rules |-> creation_rules, onepassworditem |-> onepassworditem]

NoConfig == [none |-> TRUE]

(***************************************************************************)
(* The persisted document: a YAML mapping, kept as the sequence of its     *)
(* entries in document order, or a text that is no YAML mapping at all.    *)
(***************************************************************************)
YAbsent == [tag |-> "absent"]
YNull == [tag |-> "null"]
YStr(s) == [tag |-> "str", val |-> s]
YSeq(xs) == [tag |-> "seq", val |-> xs]

YRule(path_regex, age, enc, key_groups) ==
    [path_regex |-> path_regex, age |-> age, encrypted_regex |-> enc,
     key_groups |-> key_groups]

Entry(key, value) == [key |-> key, value |-> value]
YDoc(entries) == [syntax |-> TRUE, entries |-> entries]
BadSyntaxDoc == [syntax |-> FALSE, entries |-> <<>>]

Ok(v) == [ok |-> TRUE, val |-> v]
Err(msg) == [ok |-> FALSE, err |-> msg]

\* str::contains on an error text: the needle is one of the text's fragments
Contains(msg, needle) == \E k \in DOMAIN msg : msg[k] = needle

\* Option<String>: an absent key and a null are None
ParseOption(y) == IF y.tag = "str" THEN Some(y.val) ELSE None

ParseKeyGroups(y) ==
    IF y.tag = "seq" THEN [k \in DOMAIN y.val |-> KeyGroup(y.val[k])] ELSE <<>>

ParseRule(y) ==
    CreationRule(ParseOption(y.path_regex), ParseOption(y.age),
                 ParseOption(y.encrypted_regex), ParseKeyGroups(y.key_groups))

\* Vec<CreationRule>: a sequence parses rule by rule; a scalar is a type
\* error whose text quotes the scalar
ParseRules(y) ==
    IF y.tag = "seq" THEN Ok([k \in DOMAIN y.val |-> ParseRule(y.val[k])])
    ELSE IF y.tag = "str"
    THEN Err(<<"creation_rules: invalid type: string ", y.val, ", expected a sequence">>)
    ELSE Err(<<"creation_rules: invalid type: unit value, expected a sequence">>)

ParseString(y) ==
    IF y.tag = "str" THEN Ok(y.val)
    ELSE IF y.tag = "seq"
    THEN Err(<<"onepassworditem: invalid type: sequence, expected a string">>)
    ELSE Err(<<"onepassworditem: invalid type: unit value, expected a string">>)

\* serde's derived visitor: the entries are visited in document order, the
\* first error ends the parse; missing fields are reported afterwards.
\* acc holds the fields seen so far.
RECURSIVE VisitEntries(_, _, _, _)
VisitEntries(entries, k, acc, wantOp) ==
    IF k > Len(entries) THEN Ok(acc)
    ELSE LET e == entries[k] IN
         IF e.key = "creation_rules"
         THEN IF IsSome(acc.creation_rules)
              THEN Err(<<"duplicate field creation_rules">>)
              ELSE LET r == ParseRules(e.value) IN
                   IF r.ok
                   THEN VisitEntries(entries, k + 1,
                                     [acc EXCEPT !.creation_rules = Some(r.val)], wantOp)
                   ELSE r
         ELSE IF e.key = "onepassworditem" /\ wantOp
         THEN IF IsSome(acc.onepassworditem)
              THEN Err(<<"duplicate field onepassworditem">>)
              ELSE LET r == ParseString(e.value) IN
                   IF r.ok
                   THEN VisitEntries(entries, k + 1,
                                     [acc EXCEPT !.onepassworditem = Some(r.val)], wantOp)
                   ELSE r
         ELSE VisitEntries(entries, k + 1, acc, wantOp)   \* a key the schema ignores

NoFields == [creation_rules |-> None, onepassworditem |-> None]

\* from_str::<SopsConfig>: both fields are required; a document that has
\* neither fails on the credential field
StrictParse(doc) ==
    IF ~doc.syntax THEN Err(<<"did not find expected node content">>)
    ELSE LET v == VisitEntries(doc.entries, 1, NoFields, TRUE) IN
         IF ~v.ok THEN v
         ELSE IF ~IsSome(v.val.onepassworditem) THEN Err(<<MissingOpText>>)
         ELSE IF ~IsSome(v.val.creation_rules) THEN Err(<<MissingRulesText>>)
         ELSE Ok(SopsConfig(Unwrap(v.val.creation_rules), Unwrap(v.val.onepassworditem)))

\* from_str::<PartialConfig>: creation_rules only, #[serde(default)]
PartialParse(doc) ==
    IF ~doc.syntax THEN Err(<<"did not find expected node content">>)
    ELSE LET v == VisitEntries(doc.entries, 1, NoFields, FALSE) IN
         IF ~v.ok THEN v
         ELSE IF IsSome(v.val.creation_rules) THEN Ok(Unwrap(v.val.creation_rules))
         ELSE Ok(<<>>)

(***************************************************************************)
(* Files                                                                   *)
(***************************************************************************)
MissingFile == [state |-> "missing", doc |-> BadSyntaxDoc]
File(state, doc) == [state |-> state, doc |-> doc]

ExplicitPath == "custom.yaml"
RootPath == ".sops.yaml"
Paths == {ExplicitPath, RootPath}

\* sops_config.rs:17-33 and 111-121: the path of the configuration document
ConfigPath(ctx, rt) ==
    IF IsSome(ctx.sops_file) THEN Some(Unwrap(ctx.sops_file))
    ELSE IF rt THEN Some(RootPath)
    ELSE None

\* Option<File>: the opened file, or None when the path is unknown, the file
\* is missing or it cannot be opened
get_sops_config(files, ctx, rt) ==
    LET p == ConfigPath(ctx, rt) IN
    IF ~IsSome(p) THEN None
    ELSE LET f == files[Unwrap(p)] IN
         IF f.state = "missing" THEN None
         ELSE IF f.state \in {"noperm", "wronly"} THEN None
         ELSE Some(f)

\* sops_config.rs:99-106: no file was opened
CreateDefaultKeepsEmpty(ctx) == Ok(SopsConfig(<<>>, ""))
CreateDefault(ctx) == Ok(SopsConfig(<<>>, UnwrapOrDefault(ctx.opitem)))

\* sops_config.rs:64-70: the strict parse succeeded
ApplyOverrideUnlessPersisted(cfg, ctx) ==
    IF IsSome(ctx.opitem) /\ cfg.onepassworditem = ""
    THEN Ok([cfg EXCEPT !.onepassworditem = Unwrap(ctx.opitem)])
    ELSE Ok(cfg)
ApplyOverride(cfg, ctx) ==
    IF IsSome(ctx.opitem)
    THEN Ok([cfg EXCEPT !.onepassworditem = Unwrap(ctx.opitem)])
    ELSE Ok(cfg)

\* sops_config.rs:74-92: the reduced schema
FallbackDropsOverride(contents, ctx) ==
    LET partial == PartialParse(contents) IN
    IF partial.ok
    THEN Ok(SopsConfig(partial.val, ""))
    ELSE Err(<<"Failed to parse partial YAML config: ">> \o partial.err)
Fallback(contents, ctx) ==
    LET partial == PartialParse(contents) IN
    IF partial.ok
    THEN Ok(SopsConfig(partial.val, UnwrapOrDefault(ctx.opitem)))
    ELSE Err(<<"Failed to parse partial YAML config: ">> \o partial.err)

read_or_create_config(files, ctx, rt) ==
    LET file == get_sops_config(files, ctx, rt) IN
    IF IsSome(file)
    THEN IF Unwrap(file).state = "badutf8"
         THEN Err(<<"Failed to read config file: ", "stream did not contain valid UTF-8">>)
         ELSE LET contents == Unwrap(file).doc
                  strict == StrictParse(contents)
              IN  IF strict.ok
                  THEN ApplyOverride(strict.val, ctx)
                  ELSE IF Contains(strict.err, MissingOpText)
                       THEN Fallback(contents, ctx)
                       ELSE Err(<<"Failed to parse YAML: ">> \o strict.err)
    ELSE CreateDefault(ctx)

(***************************************************************************)
(* Persisting                                                              *)
(***************************************************************************)
\* to_string(config): the full schema, an Option that is None written as null
SerializeOption(o) == IF IsSome(o) THEN YStr(Unwrap(o)) ELSE YNull

SerializeRule(r) ==
    YRule(SerializeOption(r.path_regex), SerializeOption(r.age),
          SerializeOption(r.encrypted_regex),
          YSeq([k \in DOMAIN r.key_groups |-> r.key_groups[k].age]))

Serialize(cfg) ==
    YDoc(<<Entry("creation_rules",
                 YSeq([k \in DOMAIN cfg.creation_rules |->
                          SerializeRule(cfg.creation_rules[k])])),
           Entry("onepassworditem", YStr(cfg.onepassworditem))>>)

\* what the operating system does with one write_config call
IoOutcomes == {"ok", "serialize_fails", "create_fails", "write_fails"}

\* File::create and write_all replace the text of a file and leave its
\* permissions as they are
written_file(old, doc) == File(IF old.state = "wronly" THEN "wronly" ELSE "ok", doc)

\* write_config: the new file system and the Result; File::create truncates
\* the file, so a failed write_all leaves it cut short
write_config_IgnoresSopsFile(files, cfg, ctx, rt, io) ==
    LET p == IF rt THEN Some(RootPath) ELSE None IN
    IF ~IsSome(p)
    THEN [fs |-> files, res |-> Err(<<"Could not determine project root">>)]
    ELSE IF io = "serialize_fails"
    THEN [fs |-> files, res |-> Err(<<"Failed to serialize config: ">>)]
    ELSE IF io = "create_fails" \/ files[Unwrap(p)].state = "noperm"
    THEN [fs |-> files, res |-> Err(<<"Failed to create config file ">>)]
    ELSE IF io = "write_fails"
    THEN [fs |-> [files EXCEPT ![Unwrap(p)] = written_file(files[Unwrap(p)], BadSyntaxDoc)],
          res |-> Err(<<"Failed to write to config file: ">>)]
    ELSE [fs |-> [files EXCEPT ![Unwrap(p)] = written_file(files[Unwrap(p)], Serialize(cfg))],
          res |-> Ok("unit")]

write_config_IgnoresWriteError(files, cfg, ctx, rt, io) ==
    LET p == ConfigPath(ctx, rt) IN
    IF ~IsSome(p)
    THEN [fs |-> files, res |-> Err(<<"Could not determine project root">>)]
    ELSE IF io = "serialize_fails"
    THEN [fs |-> files, res |-> Err(<<"Failed to serialize config: ">>)]
    ELSE IF io = "create_fails" \/ files[Unwrap(p)].state = "noperm"
    THEN [fs |-> files, res |-> Err(<<"Failed to create config file ">>)]
    ELSE IF io = "write_fails"
    THEN [fs |-> [files EXCEPT ![Unwrap(p)] = written_file(files[Unwrap(p)], BadSyntaxDoc)],
          res |-> Ok("unit")]
    ELSE [fs |-> [files EXCEPT ![Unwrap(p)] = written_file(files[Unwrap(p)], Serialize(cfg))],
          res |-> Ok("unit")]

write_config(files, cfg, ctx, rt, io) ==
    LET p == ConfigPath(ctx, rt) IN
    IF ~IsSome(p)
    THEN [fs |-> files, res |-> Err(<<"Could not determine project root">>)]
    ELSE IF io = "serialize_fails"
    THEN [fs |-> files, res |-> Err(<<"Failed to serialize config: ">>)]
    ELSE IF io = "create_fails" \/ files[Unwrap(p)].state = "noperm"
    THEN [fs |-> files, res |-> Err(<<"Failed to create config file ">>)]
    ELSE IF io = "write_fails"
    THEN [fs |-> [files EXCEPT ![Unwrap(p)] = written_file(files[Unwrap(p)], BadSyntaxDoc)],
          res |-> Err(<<"Failed to write to config file: ">>)]
    ELSE [fs |-> [files EXCEPT ![Unwrap(p)] = written_file(files[Unwrap(p)], Serialize(cfg))],
          res |-> Ok("unit")]

(***************************************************************************)
(* doctor: the scan of the creation rules for the derived public key       *)
(***************************************************************************)
\* doctor.rs:126-144: the key groups of one rule, in list order
RECURSIVE ScanKeyGroupsHitOnly(_, _, _, _)
ScanKeyGroupsHitOnly(key_groups, g, key, rule_has_keys) ==
    IF g > Len(key_groups) THEN [rule_has_keys |-> rule_has_keys, found |-> FALSE]
    ELSE IF \E k \in DOMAIN key_groups[g].age : key = key_groups[g].age[k]
    THEN [rule_has_keys |-> TRUE, found |-> TRUE]
    ELSE ScanKeyGroupsHitOnly(key_groups, g + 1, key, rule_has_keys)

RECURSIVE ScanKeyGroups(_, _, _, _)
ScanKeyGroups(key_groups, g, key, rule_has_keys) ==
    IF g > Len(key_groups) THEN [rule_has_keys |-> rule_has_keys, found |-> FALSE]
    ELSE IF key_groups[g].age # <<>>
    THEN IF \E k \in DOMAIN key_groups[g].age : key = key_groups[g].age[k]
         THEN [rule_has_keys |-> TRUE, found |-> TRUE]
         ELSE ScanKeyGroups(key_groups, g + 1, key, TRUE)
    ELSE ScanKeyGroups(key_groups, g + 1, key, rule_has_keys)

Scan(idx, fnd, v, without, at) ==
    [i |-> idx, found |-> fnd, via |-> v, rules_without_age |-> without, pc |-> at]

\* doctor.rs:112-154: one iteration of the loop over the rules; st.i is the
\* index of the rule, 0-based as in the source
doctor_loop_body_GroupsOnlyWithoutAge(st, rules, key) ==
    LET rule == rules[st.i + 1]
        direct == IsSome(rule.age) /\ key = Unwrap(rule.age)
        groups == IF IsSome(rule.age) THEN [rule_has_keys |-> TRUE, found |-> FALSE]
                  ELSE ScanKeyGroups(rule.key_groups, 1, key, FALSE)
    IN  IF direct
        THEN Scan(st.i, TRUE, "direct", st.rules_without_age, "done")
        ELSE IF groups.found
        THEN Scan(st.i, TRUE, "group", st.rules_without_age, "done")
        ELSE Scan(st.i + 1, FALSE, st.via,
                  IF ~groups.rule_has_keys
                  THEN Append(st.rules_without_age, st.i)
                  ELSE st.rules_without_age,
                  "scan")

doctor_loop_body_GroupsFirst(st, rules, key) ==
    LET rule == rules[st.i + 1]
        direct == IsSome(rule.age) /\ key = Unwrap(rule.age)
        groups == ScanKeyGroups(rule.key_groups, 1, key, IsSome(rule.age))
    IN  IF groups.found
        THEN Scan(st.i, TRUE, "group", st.rules_without_age, "done")
        ELSE IF direct
        THEN Scan(st.i, TRUE, "direct", st.rules_without_age, "done")
        ELSE Scan(st.i + 1, FALSE, st.via,
                  IF ~groups.rule_has_keys
                  THEN Append(st.rules_without_age, st.i)
                  ELSE st.rules_without_age,
                  "scan")

doctor_loop_body_NoBreak(st, rules, key) ==
    LET rule == rules[st.i + 1]
        direct == IsSome(rule.age) /\ key = Unwrap(rule.age)
        groups == ScanKeyGroups(rule.key_groups, 1, key, IsSome(rule.age))
    IN  IF direct
        THEN Scan(st.i + 1, TRUE, "direct", st.rules_without_age, "scan")
        ELSE IF groups.found
        THEN Scan(st.i + 1, TRUE, "group", st.rules_without_age, "scan")
        ELSE Scan(st.i + 1, st.found, st.via,
                  IF ~groups.rule_has_keys
                  THEN Append(st.rules_without_age, st.i)
                  ELSE st.rules_without_age,
                  "scan")

doctor_loop_body(st, rules, key) ==
    LET rule == rules[st.i + 1]
        direct == IsSome(rule.age) /\ key = Unwrap(rule.age)
        groups == ScanKeyGroups(rule.key_groups, 1, key, IsSome(rule.age))
    IN  IF direct
        THEN Scan(st.i, TRUE, "direct", st.rules_without_age, "done")
        ELSE IF groups.found
        THEN Scan(st.i, TRUE, "group", st.rules_without_age, "done")
        ELSE Scan(st.i + 1, FALSE, st.via,
                  IF ~groups.rule_has_keys
                  THEN Append(st.rules_without_age, st.i)
                  ELSE st.rules_without_age,
                  "scan")

(***************************************************************************)
(* set_keys: the upsert of the rule of one file                            *)
(***************************************************************************)
\* set_key.rs:143-151: the index (1-based here) of the first rule whose
\* path_regex is the file name, 0 when there is none
RECURSIVE existing_rule_index_AsPattern(_, _, _)
existing_rule_index_AsPattern(rules, k, name) ==
    IF k > Len(rules) THEN 0
    ELSE IF IsSome(rules[k].path_regex)
            /\ Unwrap(rules[k].path_regex) \in {name, ".*"} THEN k
    ELSE existing_rule_index_AsPattern(rules, k + 1, name)

existing_rule_index_FirstOnly(rules, k, name) ==
    IF rules # <<>> /\ rules[1].path_regex = Some(name) THEN 1 ELSE 0

RECURSIVE existing_rule_index(_, _, _)
existing_rule_index(rules, k, name) ==
    IF k > Len(rules) THEN 0
    ELSE IF IsSome(rules[k].path_regex) /\ Unwrap(rules[k].path_regex) = name THEN k
    ELSE existing_rule_index(rules, k + 1, name)

\* set_key.rs:142-170
UpsertReplacesRule(cfg, name, key, regex) ==
    LET index == existing_rule_index(cfg.creation_rules, 1, name)
        new_rule == CreationRule(Some(name), Some(key), Some(regex), <<>>)
    IN  IF index # 0
        THEN [cfg EXCEPT !.creation_rules[index] = new_rule]
        ELSE [cfg EXCEPT !.creation_rules = Append(@, new_rule)]

UpsertInsertsFirst(cfg, name, key, regex) ==
    LET index == existing_rule_index(cfg.creation_rules, 1, name)
        new_rule == CreationRule(Some(name), Some(key), Some(regex), <<>>)
    IN  IF index # 0
        THEN [cfg EXCEPT !.creation_rules[index].age = Some(key),
                         !.creation_rules[index].encrypted_regex = Some(regex)]
        ELSE [cfg EXCEPT !.creation_rules = <<new_rule>> \o @]

UpsertAlwaysAppends(cfg, name, key, regex) ==
    [cfg EXCEPT !.creation_rules =
        Append(@, CreationRule(Some(name), Some(key), Some(regex), <<>>))]

UpsertMovesTargetLast(cfg, name, key, regex) ==
    LET index == existing_rule_index(cfg.creation_rules, 1, name)
        rules == cfg.creation_rules
        new_rule == CreationRule(Some(name), Some(key), Some(regex), <<>>)
    IN  IF index # 0
        THEN [cfg EXCEPT !.creation_rules =
                 SubSeq(rules, 1, index - 1) \o SubSeq(rules, index + 1, Len(rules))
                 \o <<[rules[index] EXCEPT !.age = Some(key),
                                            !.encrypted_regex = Some(regex)]>>]
        ELSE [cfg EXCEPT !.creation_rules = Append(@, new_rule)]

UpsertKeepsAge(cfg, name, key, regex) ==
    LET index == existing_rule_index(cfg.creation_rules, 1, name)
        new_rule == CreationRule(Some(name), Some(key), Some(regex), <<>>)
    IN  IF index # 0
        THEN [cfg EXCEPT !.creation_rules[index].encrypted_regex = Some(regex)]
        ELSE [cfg EXCEPT !.creation_rules = Append(@, new_rule)]

Upsert(cfg, name, key, regex) ==
    LET index == existing_rule_index(cfg.creation_rules, 1, name)
        new_rule == CreationRule(Some(name), Some(key), Some(regex), <<>>)
    IN  IF index # 0
        THEN [cfg EXCEPT !.creation_rules[index].age = Some(key),
                         !.creation_rules[index].encrypted_regex = Some(regex)]
        ELSE [cfg EXCEPT !.creation_rules = Append(@, new_rule)]

(***************************************************************************)
(* Values of the variables a specification does not use                    *)
(***************************************************************************)
NoResult == [none |-> TRUE]
NoContext == [sops_file |-> None, opitem |-> None]
NoFiles == [p \in Paths |-> MissingFile]
NoExit == "running"

LoadIdle ==
    /\ result = NoResult
    /\ config = NoConfig
ScanIdle ==
    /\ derived_public_key = ""
    /\ i = 0
    /\ found = FALSE
    /\ via = "none"
    /\ rules_without_age = <<>>
UpsertIdle ==
    /\ file_name = ""
    /\ pubkey = ""
    /\ encrypted_regex = ""
    /\ before = NoConfig
PersistIdle == write_result = NoResult
RootIdle ==
    /\ tree = <<>>
    /\ start_dir = <<>>
    /\ current_dir = <<>>
    /\ root_result = None
DecryptIdle ==
    /\ path_str = <<>>
    /\ output_path = <<>>
    /\ env = <<>>
    /\ exit_code = NoExit
    /\ sops_args = <<>>
RaceIdle ==
    /\ inv = <<>>
    /\ log = <<>>
    /\ text = None
ToolIdle ==
    /\ command = ""
    /\ trace = <<>>
    /\ key_result = NoResult
    /\ upserts = <<>>

(***************************************************************************)
(* Loading: one run of read_or_create_config on a document of any shape    *)
(***************************************************************************)
\* the texts a scalar in the wrong place can hold
StrayTexts == {"TODO", MissingOpText}

LoadYRules ==
    {YRule(YStr(".*"), YStr("age1A"), YAbsent, YAbsent),
     YRule(YNull, YAbsent, YStr(".*"), YSeq(<<<<"age1B">>>>))}

LoadEntries ==
    {Entry("onepassworditem", v) : v \in {YStr(r) : r \in Refs} \cup {YSeq(<<>>)}}
    \cup {Entry("creation_rules", v) :
            v \in {YSeq(rs) : rs \in SeqsUpTo(LoadYRules, MaxDocRules)}
                  \cup {YStr(t) : t \in StrayTexts}}
    \cup {Entry("stores", YNull)}

LoadDocs == {YDoc(es) : es \in SeqsUpTo(LoadEntries, 2)} \cup {BadSyntaxDoc}

LoadFiles ==
    {MissingFile, File("noperm", YDoc(<<>>)), File("badutf8", BadSyntaxDoc)}
    \cup {File("ok", d) : d \in LoadDocs}

Contexts ==
    [sops_file : {None, Some(ExplicitPath)},
     opitem : {None} \cup {Some(r) : r \in Refs}]

\* the document the run reads is of any shape; the other path holds a fixed one
OtherFile == File("ok", YDoc(<<Entry("onepassworditem", YStr("op://other/o/o"))>>))

InitLoad ==
    /\ context \in Contexts
    /\ root \in BOOLEAN
    /\ \E f \in LoadFiles :
         LET p == IF IsSome(context.sops_file) THEN ExplicitPath ELSE RootPath IN
         fs = [q \in Paths |-> IF q = p THEN f ELSE OtherFile]
    /\ pc = "start"
    /\ LoadIdle
    /\ ScanIdle
    /\ UpsertIdle
    /\ PersistIdle
    /\ RootIdle
    /\ DecryptIdle
    /\ RaceIdle
    /\ ToolIdle

Load ==
    /\ pc = "start"
    /\ result' = read_or_create_config(fs, context, root)
    /\ config' = IF result'.ok THEN result'.val ELSE NoConfig
    /\ pc' = "loaded"
    /\ UNCHANGED <<fs, context, root, derived_public_key, i, found, via,
                   rules_without_age, file_name, pubkey, encrypted_regex, before>>
    /\ UNCHANGED <<write_result, rootVars, decryptVars, raceVars, toolVars>>

NextLoad == Load

SpecLoad == InitLoad /\ [][NextLoad]_vars

(***************************************************************************)
(* Claims about loading                                                    *)
(***************************************************************************)
TargetPath == ConfigPath(context, root)
TargetFile == fs[Unwrap(TargetPath)]
DocMissing == IsSome(TargetPath) /\ TargetFile.state = "missing"
DocReadable == IsSome(TargetPath) /\ TargetFile.state = "ok"
OverrideOrEmpty == IF context.opitem = None THEN "" ELSE context.opitem[1]

HasKey(doc, key) == \E k \in DOMAIN doc.entries : doc.entries[k].key = key
ValuesOf(doc, key) ==
    {doc.entries[k].value : k \in {j \in DOMAIN doc.entries : doc.entries[j].key = key}}
KeyCount(doc, key) ==
    Cardinality({k \in DOMAIN doc.entries : doc.entries[k].key = key})
\* the rule list a document holds: its single creation_rules sequence, rule by rule
PersistedRules(doc) ==
    IF HasKey(doc, "creation_rules")
    THEN LET y == CHOOSE v \in ValuesOf(doc, "creation_rules") : TRUE
         IN  [k \in DOMAIN y.val |-> ParseRule(y.val[k])]
    ELSE <<>>
PersistedRef(doc) == (CHOOSE v \in ValuesOf(doc, "onepassworditem") : TRUE).val
\* creation_rules is absent, or is there once and is a sequence
RulesWellFormed(doc) ==
    /\ KeyCount(doc, "creation_rules") <= 1
    /\ \A v \in ValuesOf(doc, "creation_rules") : v.tag = "seq"

\* C1: loading when the backing document does not exist succeeds and returns
\* an empty rule list with credential_reference = the override if one was
\* supplied, and "" otherwise.
C1_MissingDocumentLoadsEmpty ==
    (pc = "loaded" /\ DocMissing) =>
        /\ result.ok
        /\ result.val.creation_rules = <<>>
        /\ result.val.onepassworditem = OverrideOrEmpty

C1_Witness ==
    /\ pc = "loaded"
    /\ DocMissing
    /\ context.opitem # None
    /\ result.ok
    /\ result.val.onepassworditem = context.opitem[1]

\* C2: when the document parses against the full schema, load returns the
\* persisted rules unchanged; credential_reference is the override whenever
\* one is supplied and the persisted value verbatim otherwise.
C2_OverrideWinsOverPersisted ==
    (pc = "loaded" /\ DocReadable /\ StrictParse(TargetFile.doc).ok) =>
        /\ result.ok
        /\ result.val.creation_rules = PersistedRules(TargetFile.doc)
        /\ result.val.onepassworditem =
              IF context.opitem # None THEN context.opitem[1]
              ELSE PersistedRef(TargetFile.doc)

C2_Witness ==
    /\ pc = "loaded"
    /\ DocReadable
    /\ StrictParse(TargetFile.doc).ok
    /\ context.opitem # None
    /\ PersistedRef(TargetFile.doc) # context.opitem[1]
    /\ Len(PersistedRules(TargetFile.doc)) > 0
    /\ result.ok
    /\ result.val.onepassworditem = context.opitem[1]

\* C3 as stated: whenever the document exists but lacks the onepassworditem
\* field, load does not fail and returns the document's creation_rules
\* (empty if absent) with credential_reference = override or "".
C3_AsStated ==
    (pc = "loaded" /\ DocReadable /\ TargetFile.doc.syntax
       /\ ~HasKey(TargetFile.doc, "onepassworditem")) =>
        /\ result.ok
        /\ result.val.creation_rules = PersistedRules(TargetFile.doc)
        /\ result.val.onepassworditem = OverrideOrEmpty

\* C3 (amended): when the document is a YAML mapping that lacks the
\* onepassworditem field and whose creation_rules, if present, is a
\* well-formed rule list, load does not fail: it returns the document's
\* creation_rules (empty if that field is absent too) with
\* credential_reference = the override if supplied and "" otherwise.
C3_FallbackOnMissingReference ==
    (pc = "loaded" /\ DocReadable /\ TargetFile.doc.syntax
       /\ ~HasKey(TargetFile.doc, "onepassworditem")
       /\ RulesWellFormed(TargetFile.doc)) =>
        /\ result.ok
        /\ result.val.creation_rules = PersistedRules(TargetFile.doc)
        /\ result.val.onepassworditem = OverrideOrEmpty

C3_Witness ==
    /\ pc = "loaded"
    /\ DocReadable
    /\ TargetFile.doc.syntax
    /\ ~HasKey(TargetFile.doc, "onepassworditem")
    /\ HasKey(TargetFile.doc, "creation_rules")
    /\ RulesWellFormed(TargetFile.doc)
    /\ context.opitem # None
    /\ result.ok
    /\ result.val.onepassworditem = context.opitem[1]
    /\ Len(result.val.creation_rules) > 0

\* C4: when the strict parse fails for any reason other than the
\* onepassworditem field being absent, load returns the parse error with the
\* underlying cause and never attempts the reduced-schema fallback.
C4_OtherParseFailuresDoNotFallBack ==
    (pc = "loaded" /\ DocReadable
       /\ ~StrictParse(TargetFile.doc).ok
       /\ StrictParse(TargetFile.doc).err # <<MissingOpText>>) =>
        /\ ~result.ok
        /\ result.err = <<"Failed to parse YAML: ">> \o StrictParse(TargetFile.doc).err

(***************************************************************************)
(* Matching: one run of doctor on a persisted configuration                *)
(***************************************************************************)
ScanKeyGroupLists ==
    {<<>>,
     <<KeyGroup(<<>>)>>,
     <<KeyGroup(<<>>), KeyGroup(<<"age1B", "age1A">>)>>}

ScanRules ==
    {CreationRule(None, a, None, g) :
        a \in {None, Some("age1A"), Some("age1B")}, g \in ScanKeyGroupLists}

ScanConfigs ==
    {SopsConfig(rs, "op://V/I/F") : rs \in SeqsUpTo(ScanRules, MaxScanRules)}
    \cup {SopsConfig(<<>>, "")}

\* the public keys the key deriver hands to doctor
Candidates == {"age1A", "AGE1A"}

InitMatch ==
    /\ context = NoContext
    /\ root = TRUE
    /\ \E c \in ScanConfigs :
         fs = [q \in Paths |-> IF q = RootPath THEN File("ok", Serialize(c))
                               ELSE MissingFile]
    /\ pc = "start"
    /\ LoadIdle
    /\ ScanIdle
    /\ UpsertIdle
    /\ PersistIdle
    /\ RootIdle
    /\ DecryptIdle
    /\ RaceIdle
    /\ ToolIdle

\* doctor.rs:11-109: the tools are looked up, the configuration is loaded,
\* the key is fetched and its public key derived; any failure ends the command
DoctorStart ==
    /\ pc = "start"
    /\ \E tools \in {"no_sops", "no_op", "no_key", "bad_key", "ok"}, key \in Candidates :
         LET loaded == read_or_create_config(fs, context, root) IN
         /\ result' = IF tools \in {"no_sops", "no_op"} THEN result ELSE loaded
         /\ IF tools = "ok" /\ loaded.ok /\ loaded.val.onepassworditem # ""
            THEN /\ config' = loaded.val
                 /\ derived_public_key' = key
                 /\ pc' = "scan"
            ELSE /\ config' = IF tools \in {"no_sops", "no_op"} \/ ~loaded.ok
                              THEN config ELSE loaded.val
                 /\ derived_public_key' = derived_public_key
                 /\ pc' = "aborted"
    /\ i' = 0
    /\ found' = FALSE
    /\ rules_without_age' = <<>>
    /\ UNCHANGED <<fs, context, root, via, file_name, pubkey, encrypted_regex, before>>
    /\ UNCHANGED <<write_result, rootVars, decryptVars, raceVars, toolVars>>

\* doctor.rs:112-154: one iteration
DoctorScan ==
    /\ pc = "scan"
    /\ i < Len(config.creation_rules)
    /\ LET st == doctor_loop_body(Scan(i, found, via, rules_without_age, pc),
                                  config.creation_rules, derived_public_key)
       IN  /\ i' = st.i
           /\ found' = st.found
           /\ via' = st.via
           /\ rules_without_age' = st.rules_without_age
           /\ pc' = st.pc
    /\ UNCHANGED <<fs, context, root, result, config, derived_public_key,
                   file_name, pubkey, encrypted_regex, before>>
    /\ UNCHANGED <<write_result, rootVars, decryptVars, raceVars, toolVars>>

\* doctor.rs:112: the iterator is exhausted
DoctorLoopEnd ==
    /\ pc = "scan"
    /\ i >= Len(config.creation_rules)
    /\ pc' = "done"
    /\ UNCHANGED <<fs, context, root, result, config, derived_public_key, i, found,
                   via, rules_without_age, file_name, pubkey, encrypted_regex, before>>
    /\ UNCHANGED <<write_result, rootVars, decryptVars, raceVars, toolVars>>

NextMatch == DoctorStart \/ DoctorScan \/ DoctorLoopEnd

SpecMatch == InitMatch /\ [][NextMatch]_vars

(***************************************************************************)
(* Claims about matching                                                   *)
(***************************************************************************)
Scanning == pc \in {"scan", "done"}
ScannedRules == config.creation_rules
InGroup(rule, key) ==
    \E g \in DOMAIN rule.key_groups :
        \E k \in DOMAIN rule.key_groups[g].age : rule.key_groups[g].age[k] = key
IsDirect(rule, key) == rule.age = Some(key)
Holds(rule, key) == IsDirect(rule, key) \/ InGroup(rule, key)
\* 0-based indices of the rules that hold the key
Holders == {k \in 0..(Len(ScannedRules) - 1) : Holds(ScannedRules[k + 1], derived_public_key)}
FirstHolder == CHOOSE k \in Holders : \A m \in Holders : k <= m
NoRecipient(rule) ==
    /\ rule.age = None
    /\ \A g \in DOMAIN rule.key_groups : rule.key_groups[g].age = <<>>
Elements(seq) == {seq[k] : k \in DOMAIN seq}
Increasing(seq) == \A a, b \in DOMAIN seq : a < b => seq[a] < seq[b]

\* C5: the scan ends Found exactly when some rule holds the candidate as its
\* direct recipient or inside a key group (exact string equality), and the
\* index is then the smallest index of such a rule.
C5_FoundIffSomeRuleHoldsAtFirstIndex ==
    pc = "done" =>
        /\ found <=> Holders # {}
        /\ found => i = FirstHolder

C5_Witness ==
    /\ pc = "done"
    /\ found
    /\ i = 1
    /\ via = "group"
    /\ Len(ScannedRules) = 3
    /\ IsDirect(ScannedRules[3], derived_public_key)
    /\ ScannedRules[1].age = Some("age1B")

\* C6: within the first matching rule the match is Direct when the rule's
\* direct recipient equals the candidate (even if a key group holds it too),
\* and Group only when the direct recipient is absent or different and a
\* key group holds the candidate.
C6_DirectBeforeGroup ==
    (pc = "done" /\ found) =>
        /\ via = "direct" <=> IsDirect(ScannedRules[i + 1], derived_public_key)
        /\ via = "group" <=> /\ ~IsDirect(ScannedRules[i + 1], derived_public_key)
                             /\ InGroup(ScannedRules[i + 1], derived_public_key)

C6_Witness ==
    /\ pc = "done"
    /\ found
    /\ via = "direct"
    /\ InGroup(ScannedRules[i + 1], derived_public_key)

\* C7: at every point of the scan the "without recipient" list holds only
\* indices of rules already scanned, and never the index of the first
\* matching rule nor a greater one.
C7_WithoutRecipientOnlyBeforeMatch ==
    Scanning =>
        \A k \in DOMAIN rules_without_age :
            /\ rules_without_age[k] < i
            /\ Holders # {} => rules_without_age[k] < FirstHolder

C7_Witness ==
    /\ pc = "done"
    /\ found
    /\ i = 1
    /\ Len(ScannedRules) = 3
    /\ NoRecipient(ScannedRules[3])
    /\ NoRecipient(ScannedRules[1])
    /\ rules_without_age = <<0>>

\* C8: when the candidate occurs in no rule the scan ends NotFound and the
\* list is, in increasing order, exactly the indices of the rules with no
\* direct recipient and no non-empty key group.
C8_NotFoundListsRulesWithoutRecipient ==
    (pc = "done" /\ Holders = {}) =>
        /\ ~found
        /\ Increasing(rules_without_age)
        /\ Elements(rules_without_age) =
              {k \in 0..(Len(ScannedRules) - 1) : NoRecipient(ScannedRules[k + 1])}

C8_Witness ==
    /\ pc = "done"
    /\ ~found
    /\ Len(ScannedRules) = 3
    /\ rules_without_age = <<0, 2>>
    /\ ScannedRules[2].age = None
    /\ ~NoRecipient(ScannedRules[2])

(***************************************************************************)
(* Upserting: one run of update_sops_config on a persisted configuration   *)
(***************************************************************************)
UpsertRules ==
    {CreationRule(p, ae[1], ae[2], g) :
        p \in {None, Some("app.yaml"), Some(".*")},
        ae \in {<<None, None>>, <<Some("age1B"), Some(".*")>>},
        g \in {<<>>, <<KeyGroup(<<"age1B">>)>>}}

UpsertConfigs ==
    {SopsConfig(rs, "op://V/I/F") : rs \in SeqsUpTo(UpsertRules, MaxUpsertRules)}

UpsertKeys == {"age1A", "age1B"}

InitUpsert ==
    /\ context \in {NoContext, [sops_file |-> None, opitem |-> Some("op://W/J/G")]}
    /\ root = TRUE
    /\ \E f \in {MissingFile, File("ok", BadSyntaxDoc)}
                 \cup {File("ok", Serialize(c)) : c \in UpsertConfigs} :
         fs = [q \in Paths |-> IF q = RootPath THEN f ELSE MissingFile]
    /\ pc = "start"
    /\ LoadIdle
    /\ ScanIdle
    /\ UpsertIdle
    /\ PersistIdle
    /\ RootIdle
    /\ DecryptIdle
    /\ RaceIdle
    /\ ToolIdle

\* set_key.rs:128-183: read, upsert, write; Ok(()) is returned on every path
update_sops_config ==
    /\ pc = "start"
    /\ \E name \in Files, key \in UpsertKeys, regex \in Patterns, io \in IoOutcomes :
         LET loaded == read_or_create_config(fs, context, root) IN
         /\ file_name' = name
         /\ pubkey' = key
         /\ encrypted_regex' = regex
         /\ IF ~loaded.ok
            THEN /\ pc' = "failed"
                 /\ UNCHANGED <<fs, config, before, write_result>>
            ELSE LET updated == Upsert(loaded.val, name, key, regex)
                     written == write_config(fs, updated, context, root, io)
                 IN  /\ before' = loaded.val
                     /\ config' = updated
                     /\ fs' = written.fs
                     /\ write_result' = written.res
                     /\ pc' = "done"
         /\ result' = Ok("unit")
    /\ UNCHANGED <<context, root, derived_public_key, i, found, via, rules_without_age>>
    /\ UNCHANGED <<rootVars, decryptVars, raceVars, toolVars>>

NextUpsert == update_sops_config

SpecUpsert == InitUpsert /\ [][NextUpsert]_vars

(***************************************************************************)
(* Claims about the upsert                                                 *)
(***************************************************************************)
Upserted == pc = "done" /\ before # NoConfig
HasRuleFor(cfg, name) ==
    \E k \in DOMAIN cfg.creation_rules : cfg.creation_rules[k].path_regex = Some(name)

\* C9: upsert on a configuration that contains a rule whose path_pattern
\* equals the file identifier sets that rule's recipient and value_pattern
\* to the new values, leaves its path_pattern and key_groups untouched,
\* keeps it at the same index and leaves the list length unchanged.
C9_UpsertUpdatesExistingRuleInPlace ==
    (Upserted /\ HasRuleFor(before, file_name)) =>
        /\ Len(config.creation_rules) = Len(before.creation_rules)
        /\ \E k \in DOMAIN before.creation_rules :
              /\ before.creation_rules[k].path_regex = Some(file_name)
              /\ config.creation_rules[k].age = Some(pubkey)
              /\ config.creation_rules[k].encrypted_regex = Some(encrypted_regex)
              /\ config.creation_rules[k].path_regex = before.creation_rules[k].path_regex
              /\ config.creation_rules[k].key_groups = before.creation_rules[k].key_groups

C9_Witness ==
    /\ Upserted
    /\ Len(before.creation_rules) = 2
    /\ before.creation_rules[2].path_regex = Some(file_name)
    /\ before.creation_rules[1].path_regex # Some(file_name)
    /\ before.creation_rules[2].key_groups # <<>>
    /\ before.creation_rules[2].age # Some(pubkey)
    /\ config.creation_rules[2].age = Some(pubkey)

\* C10: upsert on a configuration in which no rule's path_pattern equals the
\* file identifier appends, as the last element, one new rule with that
\* path_pattern, the given recipient and pattern and empty key_groups; the
\* list grows by exactly one.
C10_UpsertAppendsNewRule ==
    (Upserted /\ ~HasRuleFor(before, file_name)) =>
        /\ Len(config.creation_rules) = Len(before.creation_rules) + 1
        /\ config.creation_rules[Len(config.creation_rules)] =
              CreationRule(Some(file_name), Some(pubkey), Some(encrypted_regex), <<>>)
        /\ SubSeq(config.creation_rules, 1, Len(before.creation_rules)) =
              before.creation_rules

C10_Witness ==
    /\ Upserted
    /\ ~HasRuleFor(before, file_name)
    /\ Len(before.creation_rules) = 2
    /\ before.creation_rules[1].path_regex = Some(".*")
    /\ before.creation_rules[2].path_regex = None
    /\ Len(config.creation_rules) = 3
    /\ config.creation_rules[3].path_regex = Some(file_name)


\* the rules whose path_regex is literally the file name, by (1-based) position
LiteralRules(cfg, name) ==
    {k \in DOMAIN cfg.creation_rules : cfg.creation_rules[k].path_regex = Some(name)}
IsTarget(cfg, name, k) ==
    k \in LiteralRules(cfg, name) /\ \A m \in LiteralRules(cfg, name) : k <= m

\* C11: the upsert target is the lowest-index rule whose path_pattern is
\* present and literally equal to the file identifier: a rule whose pattern
\* is another string (".*"), a rule without path_pattern and a later rule
\* with the same path_pattern are left as they were.
C11_TargetIsFirstLiteralMatch ==
    Upserted =>
        \A k \in DOMAIN before.creation_rules :
            IF IsTarget(before, file_name, k)
            THEN /\ config.creation_rules[k].age = Some(pubkey)
                 /\ config.creation_rules[k].encrypted_regex = Some(encrypted_regex)
            ELSE config.creation_rules[k] = before.creation_rules[k]

C11_Witness ==
    /\ Upserted
    /\ Len(before.creation_rules) = 2
    /\ before.creation_rules[1].path_regex = Some(file_name)
    /\ before.creation_rules[2].path_regex = Some(file_name)
    /\ before.creation_rules[1].age # Some(pubkey)
    /\ before.creation_rules[2].age # Some(pubkey)
    /\ config.creation_rules[1].age = Some(pubkey)
    /\ config.creation_rules[2] = before.creation_rules[2]


(***************************************************************************)
(* Persisting: one write_config of a configuration held in memory, then    *)
(* one read_or_create_config from the same place                           *)
(***************************************************************************)
PersistRules ==
    {CreationRule(None, None, None, <<>>),
     CreationRule(Some(".*"), Some("age1A"), None, <<KeyGroup(<<>>)>>),
     CreationRule(Some("app.yaml"), None, Some(".*"),
                  <<KeyGroup(<<"age1B", "age1A">>), KeyGroup(<<>>)>>)}

PersistConfigs ==
    {SopsConfig(rs, ref) : rs \in SeqsUpTo(PersistRules, MaxPersistRules),
                           ref \in {"op://V/I/F", ""}}

PersistContexts ==
    [sops_file : {None, Some(ExplicitPath)}, opitem : {None, Some("op://W/J/G")}]

\* what the destination holds before the write
OldFiles == {MissingFile, File("noperm", YDoc(<<>>)), OtherFile}

InitPersist ==
    /\ context \in PersistContexts
    /\ root \in BOOLEAN
    /\ \E f \in OldFiles :
         LET p == IF IsSome(context.sops_file) THEN ExplicitPath ELSE RootPath IN
         fs = [q \in Paths |-> IF q = p THEN f ELSE OtherFile]
    /\ config \in PersistConfigs
    /\ result = NoResult
    /\ pc = "start"
    /\ ScanIdle
    /\ UpsertIdle
    /\ PersistIdle
    /\ RootIdle
    /\ DecryptIdle
    /\ RaceIdle
    /\ ToolIdle

\* sops_config.rs:110-144
Persist ==
    /\ pc = "start"
    /\ \E io \in IoOutcomes :
         LET written == write_config(fs, config, context, root, io) IN
         /\ fs' = written.fs
         /\ write_result' = written.res
    /\ pc' = "written"
    /\ UNCHANGED <<context, root, result, config, derived_public_key, i, found, via,
                   rules_without_age, file_name, pubkey, encrypted_regex, before>>
    /\ UNCHANGED <<rootVars, decryptVars, raceVars, toolVars>>

\* sops_config.rs:54-108, after the write
LoadBack ==
    /\ pc = "written"
    /\ result' = read_or_create_config(fs, context, root)
    /\ pc' = "loaded"
    /\ UNCHANGED <<fs, context, root, config, derived_public_key, i, found, via,
                   rules_without_age, file_name, pubkey, encrypted_regex, before>>
    /\ UNCHANGED <<write_result, rootVars, decryptVars, raceVars, toolVars>>

NextPersist == Persist \/ LoadBack

SpecPersist == InitPersist /\ [][NextPersist]_vars

(***************************************************************************)
(* Claims about persisting                                                 *)
(***************************************************************************)
\* C12: round trip: for every configuration with a non-empty
\* credential_reference, persisting it and then loading from the same
\* location with no override returns an equal configuration (same rules in
\* the same order, same credential_reference).
C12_RoundTrip ==
    (pc = "loaded" /\ write_result.ok /\ context.opitem = None
       /\ config.onepassworditem # "") =>
        /\ result.ok
        /\ result.val.creation_rules = config.creation_rules
        /\ result.val.onepassworditem = config.onepassworditem

C12_Witness ==
    /\ pc = "loaded"
    /\ write_result.ok
    /\ context.opitem = None
    /\ context.sops_file # None
    /\ config.onepassworditem # ""
    /\ Len(config.creation_rules) = 2
    /\ config.creation_rules[1].path_regex = None
    /\ Len(config.creation_rules[2].key_groups) = 2
    /\ result.ok
    /\ result.val = config

\* C13: persist reports success only if the destination holds the complete
\* serialization of the given configuration; when path resolution,
\* serialization, file creation or the write fails it returns an error.
C13_SuccessMeansFullyWritten ==
    (pc \in {"written", "loaded"} /\ write_result.ok) =>
        /\ IsSome(TargetPath)
        /\ TargetFile = File("ok", Serialize(config))

C13_Witness ==
    /\ pc = "written"
    /\ write_result.ok
    /\ Len(config.creation_rules) = 2
    /\ TargetFile = File("ok", Serialize(config))


(***************************************************************************)
(* Claims about the outcome of update_sops_config and of loading           *)
(***************************************************************************)
\* C14: update_sops_config returns an error to its caller whenever the
\* configuration could not be loaded or could not be written; it returns
\* success (and set_keys announces the update) only when the updated
\* configuration was persisted.
C14_UpsertReportsFailure ==
    (pc \in {"done", "failed"} /\ result.ok) =>
        /\ pc = "done"
        /\ write_result.ok
        /\ TargetFile = File("ok", Serialize(config))

\* C15: load synthesizes an empty configuration only when the backing
\* document does not exist; when the document exists but cannot be opened
\* or read, load returns an error and never an empty configuration.
C15_UnreadableDocumentIsAnError ==
    (pc = "loaded" /\ IsSome(TargetPath)
       /\ TargetFile.state \in {"noperm", "badutf8"}) =>
        ~result.ok

configVars == <<fs, context, root, result, config, derived_public_key, i, found, via,
                rules_without_age, file_name, pubkey, encrypted_regex, before,
                write_result>>

\* find_project_root.rs:8
root_indicators == <<".git", "src", "flake.nix", "package.json", "Cargo.toml">>

\* the entries a directory of the model can hold
EntryNames == {".git", "Cargo.toml", "notes.txt"}

Dirs == UNION {[1..n -> {"d"}] : n \in 0..MaxDepth}

\* Path::parent
parent(dir) == IF dir = <<>> THEN None ELSE Some(SubSeq(dir, 1, Len(dir) - 1))

\* the chain from a directory up to the filesystem root, the directory included
Chain(dir) == {SubSeq(dir, 1, n) : n \in 0..Len(dir)}

has_indicator_FirstOnly(entries, indicators) == indicators[1] \in entries

\* find_project_root.rs:30-34: current_dir.join(indicator).exists() for some
\* indicator of the list
has_indicator(entries, indicators) ==
    \E k \in DOMAIN indicators : indicators[k] \in entries

fallback_dir_Current(start, current) == current

\* find_project_root.rs:46
fallback_dir(start, current) == start

InitRoot ==
    /\ start_dir \in Dirs
    /\ tree \in [Chain(start_dir) -> SUBSET EntryNames]
    /\ current_dir = start_dir
    /\ root_result = None
    /\ pc = "loop"
    /\ context = NoContext
    /\ root = TRUE
    /\ fs = NoFiles
    /\ LoadIdle
    /\ ScanIdle
    /\ UpsertIdle
    /\ PersistIdle
    /\ DecryptIdle
    /\ RaceIdle
    /\ ToolIdle

\* find_project_root.rs:29-41, one iteration
RootLoopBody ==
    /\ pc = "loop"
    /\ IF has_indicator(tree[current_dir], root_indicators)
       THEN /\ root_result' = Some(current_dir)
            /\ pc' = "returned"
            /\ UNCHANGED current_dir
       ELSE IF IsSome(parent(current_dir))
       THEN /\ current_dir' = Unwrap(parent(current_dir))
            /\ UNCHANGED <<pc, root_result>>
       ELSE /\ pc' = "fallback"
            /\ UNCHANGED <<current_dir, root_result>>
    /\ UNCHANGED <<tree, start_dir, configVars, decryptVars, raceVars, toolVars>>

\* find_project_root.rs:43-46
RootFallback ==
    /\ pc = "fallback"
    /\ root_result' = Some(fallback_dir(start_dir, current_dir))
    /\ pc' = "returned"
    /\ UNCHANGED <<tree, start_dir, current_dir, configVars, decryptVars, raceVars, toolVars>>

NextRoot == RootLoopBody \/ RootFallback

SpecRoot == InitRoot /\ [][NextRoot]_vars

\* the loop and the fallback are straight-line code: a step that can be taken
\* is taken
SpecRootFair == SpecRoot /\ WF_vars(NextRoot)

\* the directories of the chain that hold an indicator
IndicatorDirs ==
    {d \in Chain(start_dir) :
        tree[d] \cap {root_indicators[k] : k \in DOMAIN root_indicators} # {}}

\* C18: the search returns the nearest directory on the chain from the start
\* directory up to the filesystem root that contains an indicator, whichever
\* indicator it is.
C18_NearestIndicatorDir ==
    (pc = "returned" /\ IndicatorDirs # {}) =>
        /\ IsSome(root_result)
        /\ Unwrap(root_result) \in IndicatorDirs
        /\ \A d \in IndicatorDirs : Len(d) <= Len(Unwrap(root_result))

C18_Witness ==
    /\ pc = "returned"
    /\ Len(start_dir) = 3
    /\ root_result = Some(SubSeq(start_dir, 1, 2))
    /\ tree[SubSeq(start_dir, 1, 2)] = {"Cargo.toml", "notes.txt"}
    /\ ".git" \in tree[SubSeq(start_dir, 1, 1)]
    /\ tree[start_dir] = {"notes.txt"}

\* C19: the search always terminates and returns a directory; when no
\* directory of the chain contains an indicator the result is the start
\* directory, not the filesystem root and not an absent value.
C19_TerminatesWithStartDir ==
    /\ <>(pc = "returned")
    /\ []((pc = "returned") => IsSome(root_result))
    /\ []((pc = "returned" /\ IndicatorDirs = {}) => root_result = Some(start_dir))

C19_Witness ==
    /\ pc = "returned"
    /\ IndicatorDirs = {}
    /\ Len(start_dir) = 3
    /\ current_dir = <<>>
    /\ root_result = Some(start_dir)


(***************************************************************************)
(* decrypt: one run of the command on a path given as its characters       *)
(***************************************************************************)
PathChars == {"s", ".", "e", "n", "c"}
InputPaths == UNION {[1..n -> PathChars] : n \in 1..MaxPathLen}

EncSuffix == <<".", "e", "n", "c">>
DecSuffix == <<".", "d", "e", "c">>
EncLen == 4

\* str::ends_with
ends_with(s, suffix) ==
    /\ Len(s) >= Len(suffix)
    /\ SubSeq(s, Len(s) - Len(suffix) + 1, Len(s)) = suffix

\* decrypt.rs:36-40
decrypt_output_path(p) ==
    IF ends_with(p, EncSuffix)
    THEN SubSeq(p, 1, Len(p) - EncLen)
    ELSE p

\* what one run found out about its environment, in the order of the checks
Unchecked == [utf8 |-> "unchecked", is_file |-> "unchecked", sops |-> "unchecked",
              key |-> "unchecked", status |-> "unchecked"]
SopsStatuses == {"success", "unchanged", "error", "launch_failed"}

\* sops_command.rs:13-26 and decrypt.rs:51-55
sops_decrypt_args(ctx, out, p) ==
    (IF IsSome(ctx.sops_file) THEN <<"--config", Unwrap(ctx.sops_file)>> ELSE <<>>)
    \o <<"--decrypt", "--output", out, p>>

InitDecrypt ==
    /\ path_str \in InputPaths
    /\ context \in {NoContext, [sops_file |-> Some(ExplicitPath), opitem |-> None]}
    /\ output_path = <<>>
    /\ env = Unchecked
    /\ exit_code = NoExit
    /\ sops_args = <<>>
    /\ pc = "start"
    /\ root = TRUE
    /\ fs = NoFiles
    /\ LoadIdle
    /\ ScanIdle
    /\ UpsertIdle
    /\ PersistIdle
    /\ RootIdle
    /\ RaceIdle
    /\ ToolIdle

\* decrypt.rs:9-95
decrypt ==
    /\ pc = "start"
    /\ pc' = "done"
    /\ \/ /\ env' = [Unchecked EXCEPT !.utf8 = "no"]
          /\ exit_code' = "1"
          /\ UNCHANGED <<output_path, sops_args>>
       \/ /\ env' = [Unchecked EXCEPT !.utf8 = "yes", !.is_file = "no"]
          /\ exit_code' = "1"
          /\ UNCHANGED <<output_path, sops_args>>
       \/ /\ env' = [Unchecked EXCEPT !.utf8 = "yes", !.is_file = "yes", !.sops = "no"]
          /\ exit_code' = "1"
          /\ UNCHANGED <<output_path, sops_args>>
       \/ /\ env' = [Unchecked EXCEPT !.utf8 = "yes", !.is_file = "yes", !.sops = "yes",
                                      !.key = "no"]
          /\ output_path' = decrypt_output_path(path_str)
          /\ exit_code' = "1"
          /\ UNCHANGED sops_args
       \/ \E status \in SopsStatuses :
            /\ env' = [utf8 |-> "yes", is_file |-> "yes", sops |-> "yes",
                       key |-> "yes", status |-> status]
            /\ output_path' = decrypt_output_path(path_str)
            /\ sops_args' = sops_decrypt_args(context, output_path', path_str)
            /\ exit_code' = CASE status \in {"success", "unchanged"} -> "0"
                              [] status = "error" -> "status"
                              [] OTHER -> "1"
    /\ UNCHANGED <<path_str, fs, context, root, result, config, derived_public_key, i,
                   found, via, rules_without_age, file_name, pubkey, encrypted_regex,
                   before, write_result, rootVars, raceVars, toolVars>>

NextDecrypt == decrypt

SpecDecrypt == InitDecrypt /\ [][NextDecrypt]_vars

\* C20: the output path of decrypt is the input path without its .enc
\* extension when the input path ends with .enc, otherwise the input path
\* with .dec added; the output path always differs from the input path.
C20_OutputPathDiffers ==
    (pc = "done" /\ env.sops = "yes") =>
        /\ output_path = IF ends_with(path_str, EncSuffix)
                         THEN SubSeq(path_str, 1, Len(path_str) - Len(EncSuffix))
                         ELSE path_str \o DecSuffix
        /\ output_path # path_str


(***************************************************************************)
(* Two invocations of update_sops_config on one document, without a lock.  *)
(* The document is kept as its text, a sequence of lines: the line of the  *)
(* creation_rules key, one line per rule, one line per other key.  An      *)
(* invocation takes three steps: it loads and upserts, it opens the        *)
(* document with File::create, it writes its text with write_all.          *)
(***************************************************************************)
RulesLine == [kind |-> "rules"]
ItemLine(y) == [kind |-> "item", rule |-> y]
ScalarLine(key, value) == [kind |-> "scalar", key |-> key, value |-> value]

\* serde_yaml::to_string (sops_config.rs:123-126): the text of a document
RenderEntry(e) ==
    IF e.value.tag = "seq"
    THEN <<RulesLine>> \o [k \in DOMAIN e.value.val |-> ItemLine(e.value.val[k])]
    ELSE <<ScalarLine(e.key, e.value)>>

RECURSIVE RenderEntries(_, _)
RenderEntries(entries, k) ==
    IF k > Len(entries) THEN <<>>
    ELSE RenderEntry(entries[k]) \o RenderEntries(entries, k + 1)

Render(doc) == RenderEntries(doc.entries, 1)

\* the YAML reader (sops_config.rs:57-62): the document a text denotes.  A
\* list item continues the list opened just before it; anywhere else it is
\* a syntax error, and an empty text is no mapping.
RECURSIVE ScanLines(_, _, _, _)
ScanLines(lines, k, entries, open) ==
    IF k > Len(lines) THEN YDoc(entries)
    ELSE LET l == lines[k] IN
         IF l.kind = "rules"
         THEN ScanLines(lines, k + 1, Append(entries, Entry("creation_rules", YSeq(<<>>))), TRUE)
         ELSE IF l.kind = "item"
         THEN IF open
              THEN ScanLines(lines, k + 1,
                             [entries EXCEPT ![Len(entries)].value.val = Append(@, l.rule)],
                             TRUE)
              ELSE BadSyntaxDoc
         ELSE ScanLines(lines, k + 1, Append(entries, Entry(l.key, l.value)), FALSE)

ScanText(lines) == IF lines = <<>> THEN BadSyntaxDoc ELSE ScanLines(lines, 1, <<>>, FALSE)

\* the file system an invocation sees when the shared document has this text
FilesOf(t) ==
    [q \in Paths |->
        IF q = RootPath /\ IsSome(t) THEN File("ok", ScanText(Unwrap(t))) ELSE MissingFile]

file_create_KeepsText(t) == IF IsSome(t) THEN t ELSE Some(<<>>)

\* File::create (sops_config.rs:128-137): the document exists and is empty
file_create(t) == Some(<<>>)

\* write_all (sops_config.rs:139-141) on a descriptor at offset 0: the bytes
\* replace the start of the text and leave what lies beyond them
write_all(t, bytes) == bytes \o SubSeq(t, Len(bytes) + 1, Len(t))

Invocations == {1, 2}

RaceRules == {CreationRule(Some(f), Some("age1B"), Some(".*"), <<>>) : f \in Files}
RaceConfigs == {SopsConfig(rs, "op://V/I/F") : rs \in SeqsUpTo(RaceRules, MaxRaceRules)}

InitRace ==
    /\ text \in {None} \cup {Some(Render(Serialize(c))) : c \in RaceConfigs}
    /\ \E f \in [Invocations -> Files] :
         inv = [p \in Invocations |->
                  [pc |-> "start", file_name |-> f[p], pubkey |-> "age1A",
                   config |-> NoConfig, bytes |-> <<>>]]
    /\ log = <<>>
    /\ pc = "running"
    /\ context = NoContext
    /\ root = TRUE
    /\ fs = NoFiles
    /\ LoadIdle
    /\ ScanIdle
    /\ UpsertIdle
    /\ PersistIdle
    /\ RootIdle
    /\ DecryptIdle
    /\ ToolIdle

RaceUnchanged ==
    UNCHANGED <<fs, context, root, pc, result, config, derived_public_key, i, found,
                via, rules_without_age, file_name, pubkey, encrypted_regex, before,
                write_result, rootVars, decryptVars, toolVars>>

\* set_key.rs:134-171 and sops_config.rs:123-126: load, upsert, serialize
RaceLoad(p) ==
    /\ inv[p].pc = "start"
    /\ LET loaded == read_or_create_config(FilesOf(text), context, root) IN
       IF ~loaded.ok
       THEN inv' = [inv EXCEPT ![p].pc = "failed"]
       ELSE LET updated == Upsert(loaded.val, inv[p].file_name, inv[p].pubkey, ".*") IN
            inv' = [inv EXCEPT ![p].pc = "upserted", ![p].config = updated,
                               ![p].bytes = Render(Serialize(updated))]
    /\ log' = Append(log, <<p, "load">>)
    /\ UNCHANGED text
    /\ RaceUnchanged

\* sops_config.rs:128-137
RaceCreate(p) ==
    /\ inv[p].pc = "upserted"
    /\ text' = file_create(text)
    /\ inv' = [inv EXCEPT ![p].pc = "created"]
    /\ log' = Append(log, <<p, "create">>)
    /\ RaceUnchanged

\* sops_config.rs:139-143
RaceWrite(p) ==
    /\ inv[p].pc = "created"
    /\ text' = Some(write_all(Unwrap(text), inv[p].bytes))
    /\ inv' = [inv EXCEPT ![p].pc = "done"]
    /\ log' = Append(log, <<p, "write">>)
    /\ RaceUnchanged

NextRace == \E p \in Invocations : RaceLoad(p) \/ RaceCreate(p) \/ RaceWrite(p)

SpecRace == InitRace /\ [][NextRace]_vars

BothPersisted == \A p \in Invocations : inv[p].pc = "done"

\* the invocation whose write_all came last
LastWriter == log[Len(log)][1]

\* the file operations of the log, the loads left out
RECURSIVE FileOps(_)
FileOps(l) ==
    IF l = <<>> THEN <<>>
    ELSE IF l[1][2] = "load" THEN FileOps(Tail(l))
    ELSE <<l[1]>> \o FileOps(Tail(l))

\* one invocation opened the document while the other had it open
PersistsOverlap == FileOps(log)[1][1] # FileOps(log)[2][1]

AgeKeyPrefix == "AGE-SECRET-KEY-"
SecretKeys == {<<AgeKeyPrefix, "1A">>, <<AgeKeyPrefix, "1B">>, <<AgeKeyPrefix, "garbage">>}
OpStdouts == SecretKeys \cup {<<"hunter2">>, <<>>}

\* what running `op read <reference>` can come to
OpOutcomes ==
    {[launched |-> FALSE]}
    \cup {[launched |-> TRUE, success |-> FALSE]}
    \cup {[launched |-> TRUE, success |-> TRUE, stdout |-> o] : o \in OpStdouts}

\* str::starts_with
starts_with(s, prefix) == Len(s) >= 1 /\ s[1] = prefix

NoReferenceText == "No 1Password reference found in .sops.yaml and none provided via --opitem."

op_reference_AllowsEmpty(files, ctx, rt) ==
    IF IsSome(ctx.opitem) THEN Ok(Unwrap(ctx.opitem))
    ELSE LET cfg == read_or_create_config(files, ctx, rt) IN
         IF ~cfg.ok THEN Err(<<"Failed to read SOPS config: ">> \o cfg.err)
         ELSE Ok(cfg.val.onepassworditem)

\* op_key.rs:14-31: the reference to read, or the error returned before the
\* credential tool is run
op_reference(files, ctx, rt) ==
    IF IsSome(ctx.opitem) THEN Ok(Unwrap(ctx.opitem))
    ELSE LET cfg == read_or_create_config(files, ctx, rt) IN
         IF ~cfg.ok THEN Err(<<"Failed to read SOPS config: ">> \o cfg.err)
         ELSE IF cfg.val.onepassworditem = "" THEN Err(<<NoReferenceText>>)
         ELSE Ok(cfg.val.onepassworditem)

\* op_key.rs:41-63: the outcome of the credential tool turned into a result
op_read(outcome) ==
    IF ~outcome.launched THEN Err(<<"Failed to execute 1Password CLI: ">>)
    ELSE IF ~outcome.success THEN Err(<<"1Password CLI returned an error: ">>)
    ELSE IF ~starts_with(outcome.stdout, AgeKeyPrefix)
    THEN Err(<<"Retrieved value is not a valid Age key.">>)
    ELSE Ok(outcome.stdout)

\* one entry of the trace: the credential tool was run on a reference
OpRead(ref) == <<"op read", ref>>

\* op_key.rs:13-64: the result and the runs of the credential tool
get_age_key_from_1password(files, ctx, rt, outcome) ==
    LET ref == op_reference(files, ctx, rt) IN
    IF ~ref.ok THEN [res |-> ref, calls |-> <<>>]
    ELSE [res |-> op_read(outcome), calls |-> <<OpRead(ref.val)>>]

KeyFiles == LoadFiles \cup {File("ok", Serialize(SopsConfig(<<>>, "")))}

InitKey ==
    /\ context \in Contexts
    /\ root \in BOOLEAN
    /\ \E f \in KeyFiles :
         LET p == IF IsSome(context.sops_file) THEN ExplicitPath ELSE RootPath IN
         fs = [q \in Paths |-> IF q = p THEN f ELSE OtherFile]
    /\ command = "get_age_key"
    /\ trace = <<>>
    /\ key_result = NoResult
    /\ upserts = <<>>
    /\ pc = "start"
    /\ LoadIdle
    /\ ScanIdle
    /\ UpsertIdle
    /\ PersistIdle
    /\ RootIdle
    /\ DecryptIdle
    /\ RaceIdle

GetKey ==
    /\ pc = "start"
    /\ \E outcome \in OpOutcomes :
         LET got == get_age_key_from_1password(fs, context, root, outcome) IN
         /\ key_result' = got.res
         /\ trace' = trace \o got.calls
    /\ pc' = "done"
    /\ UNCHANGED <<command, upserts, configVars, rootVars, decryptVars, raceVars>>

NextKey == GetKey

SpecKey == InitKey /\ [][NextKey]_vars

\* the reference load returns when no override is supplied
LoadedReference ==
    LET cfg == read_or_create_config(fs, NoContext, root) IN
    IF IsSome(TargetPath) /\ TargetFile.state = "ok" /\ StrictParse(TargetFile.doc).ok
    THEN Some(PersistedRef(TargetFile.doc))
    ELSE IF cfg.ok THEN Some("") ELSE None

\* C21: key retrieval reads the command-line reference when one is supplied
\* and otherwise the credential_reference of the loaded configuration; with
\* no override and an empty loaded reference, or a configuration that fails
\* to load, it returns an error and the credential tool is never run.
C21_ReferenceChoice ==
    (pc = "done" /\ command = "get_age_key") =>
        IF IsSome(context.opitem)
        THEN trace = <<OpRead(Unwrap(context.opitem))>>
        ELSE IF IsSome(LoadedReference) /\ LoadedReference # Some("")
        THEN trace = <<OpRead(Unwrap(LoadedReference))>>
        ELSE ~key_result.ok /\ trace = <<>>

C21_Witness ==
    /\ pc = "done"
    /\ command = "get_age_key"
    /\ context.opitem = None
    /\ IsSome(TargetPath)
    /\ TargetFile = File("ok", Serialize(SopsConfig(<<>>, "")))
    /\ ~key_result.ok
    /\ trace = <<>>


(***************************************************************************)
(* encrypt, decrypt and edit, one action per step of the command: the path *)
(* is converted, the input file is looked for, the sops binary is looked   *)
(* for, the builder gets the age key, sops is run.                         *)
(***************************************************************************)
SopsCommands == {"encrypt", "decrypt", "edit"}
SopsPaths == {<<"s">>, <<"s", ".", "e", "n", "c">>}

\* encrypt.rs:35, decrypt.rs:36-40; edit has no output path
sops_output_path(cmd, p) ==
    IF cmd = "decrypt" THEN decrypt_output_path(p)
    ELSE IF cmd = "encrypt" THEN p
    ELSE <<>>

\* sops_command.rs:13-26 with encrypt.rs:40-44, decrypt.rs:51-55, edit.rs:37
sops_command_args(cmd, ctx, out, p) ==
    IF cmd = "decrypt" THEN sops_decrypt_args(ctx, out, p)
    ELSE (IF IsSome(ctx.sops_file) THEN <<"--config", Unwrap(ctx.sops_file)>> ELSE <<>>)
         \o (IF cmd = "encrypt" THEN <<"--encrypt", "--output", out, p>> ELSE <<p>>)

with_age_key_Optional(key) == Ok(IF key.ok THEN Some(key.val) ELSE None)

\* sops_command.rs:51-57: the builder with SOPS_AGE_KEY set, or the error of
\* the key retrieval
with_age_key(key) == IF key.ok THEN Ok(Some(key.val)) ELSE key

Checked(what, ok) == <<what, ok>>
SopsRun(args) == <<"sops", args>>

InitSops ==
    /\ command \in SopsCommands
    /\ path_str \in SopsPaths
    /\ context \in {NoContext, [sops_file |-> Some(ExplicitPath), opitem |-> None],
                    [sops_file |-> None, opitem |-> Some("op://W/J/G")]}
    /\ root = TRUE
    /\ \E f \in {MissingFile, File("ok", Serialize(SopsConfig(<<>>, ""))),
                 File("ok", Serialize(SopsConfig(<<>>, "op://V/I/F")))} :
         fs = [q \in Paths |-> f]
    /\ trace = <<>>
    /\ key_result = NoResult
    /\ upserts = <<>>
    /\ output_path = <<>>
    /\ env = <<>>
    /\ exit_code = NoExit
    /\ sops_args = <<>>
    /\ pc = "into_string"
    /\ LoadIdle
    /\ ScanIdle
    /\ UpsertIdle
    /\ PersistIdle
    /\ RootIdle
    /\ RaceIdle

SopsUnchanged ==
    UNCHANGED <<command, path_str, env, upserts, configVars, rootVars, raceVars>>

\* the command prints its error and calls std::process::exit(1)
Exit1 ==
    /\ exit_code' = "1"
    /\ pc' = "exited"

\* encrypt.rs:11-17, decrypt.rs:11-17, edit.rs:10-16
SopsIntoString ==
    /\ pc = "into_string"
    /\ \E utf8 \in BOOLEAN :
         /\ trace' = Append(trace, Checked("into_string", utf8))
         /\ IF utf8 THEN pc' = "is_file" /\ UNCHANGED exit_code ELSE Exit1
    /\ UNCHANGED <<key_result, output_path, sops_args>>
    /\ SopsUnchanged

\* encrypt.rs:20-23, decrypt.rs:20-23, edit.rs:19-22
SopsIsFile ==
    /\ pc = "is_file"
    /\ \E is_file \in BOOLEAN :
         /\ trace' = Append(trace, Checked("is_file", is_file))
         /\ IF is_file THEN pc' = "which" /\ UNCHANGED exit_code ELSE Exit1
    /\ UNCHANGED <<key_result, output_path, sops_args>>
    /\ SopsUnchanged

\* encrypt.rs:26-35, decrypt.rs:26-40, edit.rs:25-34
SopsWhich ==
    /\ pc = "which"
    /\ \E installed \in BOOLEAN :
         /\ trace' = Append(trace, Checked("which sops", installed))
         /\ IF installed
            THEN /\ pc' = "with_age_key"
                 /\ output_path' = sops_output_path(command, path_str)
                 /\ UNCHANGED exit_code
            ELSE /\ Exit1
                 /\ UNCHANGED output_path
    /\ UNCHANGED <<key_result, sops_args>>
    /\ SopsUnchanged

\* encrypt.rs:40-52, decrypt.rs:51-63, edit.rs:37-43
SopsWithAgeKey ==
    /\ pc = "with_age_key"
    /\ \E outcome \in OpOutcomes :
         \E got \in {get_age_key_from_1password(fs, context, root, outcome)} :
             /\ key_result' = got.res
             /\ trace' = (trace \o got.calls) \o <<Checked("with_age_key", got.res.ok)>>
             /\ IF with_age_key(got.res).ok
                THEN pc' = "status" /\ UNCHANGED exit_code
                ELSE Exit1
    /\ UNCHANGED <<output_path, sops_args>>
    /\ SopsUnchanged

\* encrypt.rs:55-81, decrypt.rs:66-94, edit.rs:46-65
SopsStatus ==
    /\ pc = "status"
    /\ sops_args' = sops_command_args(command, context, output_path, path_str)
    /\ trace' = Append(trace, SopsRun(sops_args'))
    /\ \E status \in SopsStatuses :
         IF status \in {"success", "unchanged"}
         THEN /\ exit_code' = "0"
              /\ pc' = "returned"
         ELSE /\ exit_code' = IF status = "error" THEN "status" ELSE "1"
              /\ pc' = "exited"
    /\ UNCHANGED <<key_result, output_path>>
    /\ SopsUnchanged

NextSops == SopsIntoString \/ SopsIsFile \/ SopsWhich \/ SopsWithAgeKey \/ SopsStatus

SpecSops == InitSops /\ [][NextSops]_vars

Launched == \E k \in DOMAIN trace : trace[k][1] = "sops"
CheckFailed ==
    \E k \in DOMAIN trace :
        trace[k] \in {Checked("is_file", FALSE), Checked("which sops", FALSE),
                      Checked("with_age_key", FALSE)}

\* C22: in encrypt, decrypt and edit sops is launched only after the input
\* file was found, then the sops binary was found, then the age key was
\* retrieved; when one of these checks fails the command ends with exit
\* code 1 and sops is never launched.
C22_LaunchAfterChecks ==
    /\ Launched =>
         \E a, b, c, d \in DOMAIN trace :
             /\ a < b /\ b < c /\ c < d
             /\ trace[a] = Checked("is_file", TRUE)
             /\ trace[b] = Checked("which sops", TRUE)
             /\ trace[c] = Checked("with_age_key", TRUE)
             /\ key_result.ok
             /\ trace[d][1] = "sops"
    /\ CheckFailed => (pc = "exited" /\ exit_code = "1" /\ ~Launched)

C22_Witness ==
    /\ command = "edit"
    /\ Launched
    /\ trace[2] = Checked("is_file", TRUE)
    /\ trace[3] = Checked("which sops", TRUE)
    /\ trace[4] = OpRead("op://V/I/F")
    /\ trace[5] = Checked("with_age_key", TRUE)
    /\ sops_args = <<path_str>>


(***************************************************************************)
(* init: the command up to its call of assign_op_item, then                *)
(* assign_op_item.  A file in state "wronly" exists and can be written but *)
(* not opened for reading.                                                 *)
(***************************************************************************)
OpFieldName == "onepassworditem"

\* str::contains(OpFieldName) on the texts of the model
Mentions(s) == s \in {OpFieldName, MissingOpText}

RuleMentions(y) ==
    \E v \in {y.path_regex, y.age, y.encrypted_regex} : v.tag = "str" /\ Mentions(v.val)

\* init.rs:22: contents.contains("onepassworditem") on the text of a document
contents_contains_op(doc) ==
    \E k \in DOMAIN doc.entries :
        LET e == doc.entries[k] IN
        \/ Mentions(e.key)
        \/ e.value.tag = "str" /\ Mentions(e.value.val)
        \/ e.value.tag = "seq" /\ \E j \in DOMAIN e.value.val : RuleMentions(e.value.val[j])

\* a text with an onepassworditem line that is no YAML mapping
BrokenDocWithField == [syntax |-> FALSE, entries |-> <<Entry(OpFieldName, YStr("op://V/I/F"))>>]

InitDocs == LoadDocs \cup {BrokenDocWithField}

InitFiles ==
    {MissingFile, File("badutf8", BadSyntaxDoc)}
    \cup {File(s, Serialize(SopsConfig(<<>>, "op://V/I/F"))) : s \in {"noperm", "wronly"}}
    \cup {File("ok", d) : d \in InitDocs}

\* init.rs:55-63
BasicConfig == SopsConfig(<<CreationRule(Some(".*"), None, None, <<>>)>>, "")

\* dialoguer::Confirm and FuzzySelect, get_vaults, get_items, get_fields
Confirmed(prompt, answer) == <<"confirm", prompt, answer>>
Selected(prompt, name) == <<"select", prompt, name>>
OpList(what) == <<"op list", what>>

\* what 1Password lists and what the user picks in one run of assign_op_item
NameLists(a, b) == {None, Some(<<>>), Some(<<a, b>>)}
AssignInputs ==
    [confirm : BOOLEAN,
     vaults : NameLists("V", "W"), selected_vault : {1, 2},
     items : NameLists("I", "J"), selected_item : {1, 2},
     fields : NameLists("F", "G"), selected_field : {1, 2}]

\* init.rs:142-145
op_locator(vault, item, field) == "op://" \o vault \o "/" \o item \o "/" \o field

Unusable(list) == ~IsSome(list) \/ Unwrap(list) = <<>>

\* init.rs:79-174: the files, the result of the write if one was made, the
\* configuration written and what was asked of the user and of 1Password
assign_outcome(files, ctx, rt, in, io) ==
    LET quiet(events) == [fs |-> files, res |-> NoResult, cfg |-> NoConfig, trace |-> events]
        asked == <<Confirmed("assign", in.confirm)>>
        t1 == asked \o <<OpList("vaults")>>
        t2 == t1 \o <<Selected("vault", Unwrap(in.vaults)[in.selected_vault]), OpList("items")>>
        t3 == t2 \o <<Selected("item", Unwrap(in.items)[in.selected_item]), OpList("fields")>>
        t4 == t3 \o <<Selected("field", Unwrap(in.fields)[in.selected_field])>>
    IN  IF ~in.confirm THEN quiet(asked)
        ELSE IF Unusable(in.vaults) THEN quiet(t1)
        ELSE IF Unusable(in.items) THEN quiet(t2)
        ELSE IF Unusable(in.fields) THEN quiet(t3)
        ELSE LET reference == op_locator(Unwrap(in.vaults)[in.selected_vault],
                                         Unwrap(in.items)[in.selected_item],
                                         Unwrap(in.fields)[in.selected_field])
                 loaded == read_or_create_config(files, ctx, rt)
             IN  IF ~loaded.ok THEN quiet(t4)
                 ELSE LET cfg == [loaded.val EXCEPT !.onepassworditem = reference]
                          written == write_config(files, cfg, ctx, rt, io)
                      IN  [fs |-> written.fs, res |-> written.res, cfg |-> cfg, trace |-> t4]

InitInit ==
    /\ command = "init"
    /\ context \in Contexts
    /\ root \in BOOLEAN
    /\ \E f \in InitFiles :
         LET p == IF IsSome(context.sops_file) THEN ExplicitPath ELSE RootPath IN
         fs = [q \in Paths |-> IF q = p THEN f ELSE OtherFile]
    /\ trace = <<>>
    /\ key_result = NoResult
    /\ upserts = <<>>
    /\ pc = "start"
    /\ LoadIdle
    /\ ScanIdle
    /\ UpsertIdle
    /\ PersistIdle
    /\ RootIdle
    /\ DecryptIdle
    /\ RaceIdle

InitUnchanged ==
    UNCHANGED <<context, root, derived_public_key, i, found, via, rules_without_age,
                file_name, pubkey, encrypted_regex, rootVars, decryptVars,
                raceVars, command, key_result, upserts>>

\* init.rs:12-77
init ==
    /\ pc = "start"
    /\ command = "init"
    /\ LET file == get_sops_config(fs, context, root) IN
       IF IsSome(file)
       THEN /\ IF Unwrap(file).state = "badutf8"
               THEN pc' = "done" /\ UNCHANGED result
               ELSE IF ~contents_contains_op(Unwrap(file).doc)
               THEN pc' = "assign" /\ UNCHANGED result
               ELSE pc' = "done" /\ result' = StrictParse(Unwrap(file).doc)
            /\ UNCHANGED <<fs, trace, write_result, config, before>>
       ELSE \E create \in BOOLEAN, io \in IoOutcomes :
              /\ trace' = <<Confirmed("create", create)>>
              /\ IF create
                 THEN LET written == write_config(fs, BasicConfig, context, root, io) IN
                      /\ fs' = written.fs
                      /\ write_result' = written.res
                      /\ config' = BasicConfig
                      /\ pc' = IF written.res.ok THEN "assign" ELSE "done"
                 ELSE /\ pc' = "done"
                      /\ UNCHANGED <<fs, write_result, config>>
              /\ UNCHANGED <<result, before>>
    /\ InitUnchanged

\* init.rs:79-174
assign_op_item ==
    /\ pc = "assign"
    /\ \E in \in AssignInputs, io \in IoOutcomes :
         LET out == assign_outcome(fs, context, root, in, io) IN
         /\ fs' = out.fs
         /\ write_result' = out.res
         /\ config' = out.cfg
         /\ trace' = trace \o out.trace
    \* kept for the claims: the file as assign_op_item found it
    /\ before' = IF IsSome(TargetPath) THEN TargetFile ELSE MissingFile
    /\ pc' = "done"
    /\ UNCHANGED result
    /\ InitUnchanged

NextInit == init \/ assign_op_item

SpecInit == InitInit /\ [][NextInit]_vars


\* the document of the run exists and its text holds the field name
ExistingDocWithField ==
    /\ IsSome(TargetPath)
    /\ TargetFile.state # "missing"
    /\ contents_contains_op(TargetFile.doc)

\* C23: init never writes to an existing configuration document whose text
\* contains the onepassworditem field name: whether the document parses or
\* fails to parse, it is left unchanged and no credential assignment is
\* started.
C23_InitLeavesDocumentWithField ==
    [][(command = "init" /\ pc = "start" /\ ExistingDocWithField)
       => (fs' = fs /\ pc' = "done")]_vars


\* the locators that can be built from the selections a trace records
LocatorsOf(events) ==
    {op_locator(v[3], it[3], f[3]) :
        v \in {events[k] : k \in {j \in DOMAIN events : events[j][2] = "vault"}},
        it \in {events[k] : k \in {j \in DOMAIN events : events[j][2] = "item"}},
        f \in {events[k] : k \in {j \in DOMAIN events : events[j][2] = "field"}}}

\* C24: a successful credential assignment in init changes only the
\* credential reference: the persisted document afterwards has the
\* creation_rules the document had before, in the same order, and its
\* credential_reference is op://<vault>/<item>/<field> built from the three
\* selections; when the configuration cannot be loaded nothing is written.
C24_AssignChangesOnlyReference ==
    [][(command = "init" /\ pc = "assign" /\ pc' = "done") =>
          /\ (write_result' = Ok("unit")) =>
                /\ PersistedRules(TargetFile'.doc) = PersistedRules(TargetFile.doc)
                /\ PersistedRef(TargetFile'.doc) \in LocatorsOf(trace')
          /\ ~read_or_create_config(fs, context, root).ok => fs' = fs]_vars


(***************************************************************************)
(* set_keys: one run of the command.  The target path is the sequence of   *)
(* its parts, <<"app", ".", "yaml">>; env tells whether it exists.         *)
(***************************************************************************)
TargetPaths ==
    {<<"app">>, <<".", "yaml">>, <<"app", ".", "txt">>, <<"app", ".", "yaml">>,
     <<"app", ".", "YML">>, <<"db", ".", "Json">>}

\* Path::extension: what follows the last dot of a name that has a stem
extension(p) ==
    IF Len(p) >= 3 /\ p[Len(p) - 1] = "." THEN Some(p[Len(p)]) ELSE None

\* str::to_lowercase on the extensions of the model
to_lowercase(s) ==
    CASE s = "YML" -> "yml"
      [] s = "Json" -> "json"
      [] OTHER -> s

supported_extension_Any(ext) == TRUE

\* set_key.rs:21-22
supported_extension(ext) == to_lowercase(ext) \in {"yaml", "yml", "json"}

\* Path::to_string_lossy: the path as one string
RECURSIVE to_string_lossy(_)
to_string_lossy(p) == IF p = <<>> THEN "" ELSE Head(p) \o to_string_lossy(Tail(p))

\* op_key.rs:67-83: the recipient of an identity, or the parse error
extract_public_key(key) ==
    IF key = <<AgeKeyPrefix, "1A">> THEN Ok("age1A")
    ELSE IF key = <<AgeKeyPrefix, "1B">> THEN Ok("age1B")
    ELSE Err(<<"invalid Bech32 encoding">>)

\* set_key.rs:92-125: a pattern, or the error of the terminal
PromptResults == {Err(<<"IO error">>)} \cup {Ok(r) : r \in Patterns}
Prompted(what) == <<"prompt", what>>

SetKeysConfigs ==
    {SopsConfig(rs, ref) :
        rs \in {<<>>, <<CreationRule(Some("app.yaml"), Some("age1B"), Some(".*"), <<>>)>>},
        ref \in {"", "op://V/I/F"}}

InitSetKeys ==
    /\ command = "set_keys"
    /\ path_str \in TargetPaths
    /\ env \in [exists : BOOLEAN]
    /\ context \in {NoContext, [sops_file |-> None, opitem |-> Some("op://W/J/G")]}
    /\ root = TRUE
    /\ \E f \in {MissingFile, File("ok", BadSyntaxDoc)}
                 \cup {File("ok", Serialize(c)) : c \in SetKeysConfigs} :
         fs = [q \in Paths |-> IF q = RootPath THEN f ELSE MissingFile]
    /\ trace = <<>>
    /\ key_result = NoResult
    /\ upserts = <<>>
    /\ output_path = <<>>
    /\ exit_code = NoExit
    /\ sops_args = <<>>
    /\ pc = "start"
    /\ LoadIdle
    /\ ScanIdle
    /\ UpsertIdle
    /\ PersistIdle
    /\ RootIdle
    /\ RaceIdle

\* set_key.rs:9-89, with update_sops_config (128-183)
set_keys ==
    /\ pc = "start"
    /\ command = "set_keys"
    /\ pc' = "done"
    /\ IF \/ ~env.exists
          \/ ~IsSome(extension(path_str))
          \/ ~supported_extension(Unwrap(extension(path_str)))
       THEN UNCHANGED <<fs, trace, key_result, config, before, write_result,
                        file_name, pubkey, encrypted_regex>>
       ELSE \E outcome \in OpOutcomes, prompt \in PromptResults, io \in IoOutcomes :
            \E got \in {get_age_key_from_1password(fs, context, root, outcome)} :
              /\ key_result' = got.res
              /\ IF ~got.res.ok
                 THEN /\ trace' = got.calls
                      /\ UNCHANGED <<fs, config, before, write_result, file_name,
                                     pubkey, encrypted_regex>>
                 ELSE \E derived \in {extract_public_key(got.res.val)} :
                   IF ~derived.ok \/ derived.val = ""
                   THEN /\ trace' = got.calls
                        /\ UNCHANGED <<fs, config, before, write_result, file_name,
                                       pubkey, encrypted_regex>>
                   ELSE IF ~prompt.ok
                   THEN /\ trace' = got.calls \o <<Prompted("pattern")>>
                        /\ pubkey' = derived.val
                        /\ UNCHANGED <<fs, config, before, write_result, file_name,
                                       encrypted_regex>>
                   ELSE /\ trace' = got.calls \o <<Prompted("pattern")>>
                        /\ pubkey' = derived.val
                        /\ file_name' = to_string_lossy(path_str)
                        /\ encrypted_regex' = prompt.val
                        /\ \E loaded \in {read_or_create_config(fs, context, root)} :
                             IF ~loaded.ok
                             THEN UNCHANGED <<fs, config, before, write_result>>
                             ELSE /\ before' = loaded.val
                                  /\ config' = Upsert(loaded.val, file_name',
                                                      derived.val, prompt.val)
                                  /\ \E written \in {write_config(fs, config', context,
                                                                  root, io)} :
                                       /\ fs' = written.fs
                                       /\ write_result' = written.res
    /\ UNCHANGED <<context, root, result, derived_public_key, i, found, via,
                   rules_without_age, rootVars, decryptVars, raceVars, command, upserts>>

NextSetKeys == set_keys

SpecSetKeys == InitSetKeys /\ [][NextSetKeys]_vars

\* the extensions of the model that are yaml, yml or json in some case
SupportedInSomeCase == {"yaml", "YML", "Json"}

\* the target is missing, has no extension or has an unsupported one
UnsupportedTarget ==
    \/ ~env.exists
    \/ \A stem \in {"app", "db"}, e \in SupportedInSomeCase : path_str # <<stem, ".", e>>

\* C25: set_keys leaves the configuration document unchanged, and contacts
\* neither the credential store nor the user, when the target file does not
\* exist, has no extension, or has an extension other than yaml, yml or json
\* in any case; the document is likewise unchanged when key retrieval,
\* public-key derivation or the pattern prompt fails.
C25_SetKeysGuards ==
    [][(command = "set_keys" /\ pc = "start") =>
          /\ UnsupportedTarget => (fs' = fs /\ trace' = <<>>)
          /\ (key_result' # NoResult /\ ~key_result'.ok) => fs' = fs
          /\ pubkey' = "" => fs' = fs
          /\ encrypted_regex' = "" => fs' = fs]_vars

C25_Witness ==
    /\ command = "set_keys"
    /\ pc = "done"
    /\ env.exists
    /\ path_str = <<"app", ".", "txt">>
    /\ TargetFile = File("ok", Serialize(SopsConfig(<<>>, "op://V/I/F")))
    /\ trace = <<>>
    /\ key_result = NoResult
    /\ write_result = NoResult


(***************************************************************************)
(* Sequences of upserts: the update of set_key.rs:142-170 applied to a     *)
(* configuration again and again, each time with a file, a recipient and   *)
(* a pattern.  before is the configuration the sequence started from.      *)
(***************************************************************************)
SeqRules ==
    {CreationRule(Some("app.yaml"), Some("age1B"), Some(".*"), <<>>),
     CreationRule(Some("db.json"), None, None, <<KeyGroup(<<"age1A">>)>>),
     CreationRule(Some(".*"), Some("age1A"), None, <<>>),
     CreationRule(None, None, None, <<>>)}

SeqConfigs == {SopsConfig(rs, "op://V/I/F") : rs \in SeqsUpTo(SeqRules, MaxSeqRules)}

SeqArgs ==
    {<<f, r, ".*">> : f \in Files, r \in UpsertKeys}
    \cup {<<"app.yaml", "age1A", "^(password|token)">>}

InitSeq ==
    /\ config \in SeqConfigs
    /\ before = config
    /\ upserts = <<>>
    /\ command = "upsert"
    /\ trace = <<>>
    /\ key_result = NoResult
    /\ file_name = ""
    /\ pubkey = ""
    /\ encrypted_regex = ""
    /\ result = NoResult
    /\ pc = "start"
    /\ context = NoContext
    /\ root = TRUE
    /\ fs = NoFiles
    /\ ScanIdle
    /\ PersistIdle
    /\ RootIdle
    /\ DecryptIdle
    /\ RaceIdle

\* set_key.rs:142-170
ApplyUpsert ==
    /\ Len(upserts) < MaxUpserts
    /\ \E a \in SeqArgs :
         /\ config' = Upsert(config, a[1], a[2], a[3])
         /\ upserts' = Append(upserts, a)
         /\ file_name' = a[1]
         /\ pubkey' = a[2]
         /\ encrypted_regex' = a[3]
    /\ pc' = "upserted"
    /\ UNCHANGED <<fs, context, root, result, derived_public_key, i, found, via,
                   rules_without_age, before, write_result, rootVars, decryptVars,
                   raceVars, command, trace, key_result>>

NextSeq == ApplyUpsert

SpecSeq == InitSeq /\ [][NextSeq]_vars

LastUpsert == upserts[Len(upserts)]

\* C26: upsert is idempotent: applying upsert(f, r, p) twice yields the
\* configuration that applying it once yields, and the second application
\* never appends a rule.
C26_UpsertIdempotent ==
    /\ (command = "upsert" /\ upserts # <<>>) =>
          Upsert(config, LastUpsert[1], LastUpsert[2], LastUpsert[3]) = config
    /\ (command = "upsert" /\ Len(upserts) = 2 /\ upserts[1] = upserts[2]) =>
          /\ config = Upsert(before, upserts[1][1], upserts[1][2], upserts[1][3])
          /\ Len(config.creation_rules) <= Len(before.creation_rules) + 1

C26_Witness ==
    /\ command = "upsert"
    /\ Len(upserts) = 2
    /\ upserts[1] = upserts[2]
    /\ before.creation_rules = <<CreationRule(Some(".*"), Some("age1A"), None, <<>>)>>
    /\ Len(config.creation_rules) = 2
    /\ config.creation_rules[2] =
          CreationRule(Some(upserts[1][1]), Some(upserts[1][2]), Some(upserts[1][3]), <<>>)

NoDuplicatePattern(cfg) ==
    \A a, b \in DOMAIN cfg.creation_rules :
        a # b => cfg.creation_rules[a].path_regex # cfg.creation_rules[b].path_regex

\* the files upserted so far that the starting configuration had no rule for
NewFiles ==
    {upserts[k][1] : k \in DOMAIN upserts}
    \ {Unwrap(before.creation_rules[k].path_regex) :
          k \in {j \in DOMAIN before.creation_rules :
                    IsSome(before.creation_rules[j].path_regex)}}

\* C27: starting from a configuration in which no two rules have the same
\* path_pattern, after any sequence of upserts no two rules have the same
\* path_pattern, and the number of rules is the initial number plus the
\* number of distinct new files upserted.
C27_NoDuplicatePattern ==
    (command = "upsert" /\ NoDuplicatePattern(before)) =>
        /\ NoDuplicatePattern(config)
        /\ Len(config.creation_rules) = Len(before.creation_rules) + Cardinality(NewFiles)

C27_Witness ==
    /\ command = "upsert"
    /\ before.creation_rules = <<CreationRule(Some(".*"), Some("age1A"), None, <<>>),
                                 CreationRule(Some("app.yaml"), Some("age1B"), Some(".*"), <<>>)>>
    /\ Len(upserts) = 2
    /\ upserts[1][1] = "db.json"
    /\ upserts[2][1] = "app.yaml"
    /\ Len(config.creation_rules) = 3
    /\ NoDuplicatePattern(config)

\* the rule of the starting configuration that some upsert of the sequence
\* was aimed at
WasTarget(k) == \E u \in DOMAIN upserts : IsTarget(before, upserts[u][1], k)

\* C28: upsert leaves every rule other than the target unchanged and in its
\* original position, and no rule is removed or reordered by any sequence
\* of upserts.
C28_OtherRulesStay ==
    command = "upsert" =>
        /\ Len(config.creation_rules) >= Len(before.creation_rules)
        /\ \A k \in DOMAIN before.creation_rules :
              /\ config.creation_rules[k].path_regex = before.creation_rules[k].path_regex
              /\ config.creation_rules[k].key_groups = before.creation_rules[k].key_groups
              /\ ~WasTarget(k) => config.creation_rules[k] = before.creation_rules[k]

C28_Witness ==
    /\ command = "upsert"
    /\ before.creation_rules = <<CreationRule(Some("db.json"), None, None, <<KeyGroup(<<"age1A">>)>>),
                                 CreationRule(Some("db.json"), None, None, <<KeyGroup(<<"age1A">>)>>)>>
    /\ upserts = <<<<"db.json", "age1B", ".*">>, <<"app.yaml", "age1A", ".*">>>>
    /\ config.creation_rules[1].age = Some("age1B")
    /\ config.creation_rules[2] = before.creation_rules[2]
    /\ Len(config.creation_rules) = 3

\* doctor.rs:112-154: the loop run to its end
RECURSIVE doctor_scan(_, _, _)
doctor_scan(st, rules, key) ==
    IF st.pc = "scan" /\ st.i < Len(rules)
    THEN doctor_scan(doctor_loop_body(st, rules, key), rules, key)
    ELSE st

\* C29: after upsert(f, r, p), matching recipient r against the resulting
\* configuration returns Found at an index no greater than the index of the
\* rule the upsert wrote; "no matching public key" is never reported for it.
C29_UpsertedKeyIsFound ==
    (command = "upsert" /\ upserts # <<>>) =>
        LET matched == doctor_scan(Scan(0, FALSE, "none", <<>>, "scan"),
                                   config.creation_rules, LastUpsert[2])
        IN  /\ matched.found
            /\ \E k \in DOMAIN config.creation_rules :
                  /\ IsTarget(config, LastUpsert[1], k)
                  /\ matched.i + 1 <= k

C29_Witness ==
    /\ command = "upsert"
    /\ before.creation_rules = <<CreationRule(Some("db.json"), None, None, <<KeyGroup(<<"age1A">>)>>),
                                 CreationRule(Some("app.yaml"), Some("age1B"), Some(".*"), <<>>)>>
    /\ upserts = <<<<"app.yaml", "age1A", ".*">>>>
    /\ config.creation_rules[2].age = Some("age1A")
    /\ doctor_scan(Scan(0, FALSE, "none", <<>>, "scan"), config.creation_rules, "age1A").i = 0

====
